---- MODULE Spec2Model ----
(***************************************************************************)
(* kubectx-manager: the restore conflict engine (cmd/restore.go) and the   *)
(* kubeconfig store it uses (internal/kubeconfig/kubeconfig.go).           *)
(*                                                                         *)
(* Strings that the code formats and parses (entity names, conflict        *)
(* descriptions, prompt answers) are sequences of one-character strings;   *)
(* strings that are only compared (tokens, server URLs, ...) are TLA+      *)
(* strings.  A Go nil pointer is the record Nil.                           *)
(***************************************************************************)
EXTENDS Integers, Sequences, FiniteSets, TLC

VARIABLES pc, current, backup, analysis, items, selective,
          files, noBackup, keepBackup, now, backups, selectedBackup, decision,
          exit, files0, answer, prompts, written, overwrote, failed, replies,
          dirEntries, dryRun, authCheck, interactive, cfg, kConfig, contextsToRemove,
          probe, kConfig0, call, ret, stdin, reader

\* the inputs and results of the functions checked on their own
pureVars == <<current, backup, items, selective>>
\* one restore run: the directory of the kubeconfig, the flags, the clock,
\* the locals of runRestore, the exit status
runVars == <<files, noBackup, keepBackup, now, backups, selectedBackup, decision, exit>>
\* history of the run: the directory at its start, the line read at the
\* conflict prompt, the number of conflict prompts shown, the backup paths
\* written, whether the live kubeconfig was written, the step that failed,
\* what was answered at the selection and at the confirmation prompt
histVars == <<files0, answer, prompts, written, overwrote, failed, replies>>

\* the directory listing handed to findBackups on its own; the arguments and
\* the result of the other functions called on their own; the lines waiting
\* on standard input and the lines held by the bufio.Reader of a prompt
catalogVars == <<dirEntries, call, ret, stdin, reader>>
\* one cleanup run: the flags, the loaded whitelist, the loaded kubeconfig,
\* the removal set, what the clusters and commands answer when probed, and
\* the kubeconfig as it was loaded
cleanVars == <<dryRun, authCheck, interactive, cfg, kConfig, contextsToRemove, probe, kConfig0>>

vars == <<pc, analysis, pureVars, runVars, histVars, catalogVars, cleanVars>>

(***************************************************************************)
(* Bounds                                                                  *)
(***************************************************************************)
\* longest context/cluster/user list of a document in the list-shaped inputs
MaxEntries == 2
\* longest conflict list handed to createSelectiveBackup on its own
MaxConflicts == 2
\* the seconds of the clock: backup timestamps and the time of the run
MaxTime == 2

(***************************************************************************)
(* Strings                                                                 *)
(***************************************************************************)
Nil == [nil |-> TRUE]

An == <<"a">>
Bn == <<"b">>
Names == {An, Bn}

SeqUpTo(S, n) == UNION {[1..k -> S] : k \in 0..n}

SetMin(S) == CHOOSE x \in S : \A y \in S : x <= y
SetMax(S) == CHOOSE x \in S : \A y \in S : x >= y

\* strings.Index: 0-based position of the first occurrence of sub in s, or -1
Index(s, sub) ==
    LET hits == {i \in 0..(Len(s) - Len(sub)) : SubSeq(s, i + 1, i + Len(sub)) = sub}
    IN  IF hits = {} THEN -1 ELSE SetMin(hits)

Contains(s, sub) == Index(s, sub) # -1

isSpace(ch) == ch \in {" ", "\t", "\r", "\n"}

\* strings.TrimSpace
RECURSIVE TrimLeft(_)
TrimLeft(s) == IF s # <<>> /\ isSpace(Head(s)) THEN TrimLeft(Tail(s)) ELSE s
RECURSIVE TrimRight(_)
TrimRight(s) ==
    IF s # <<>> /\ isSpace(s[Len(s)]) THEN TrimRight(SubSeq(s, 1, Len(s) - 1)) ELSE s
TrimSpace(s) == TrimRight(TrimLeft(s))

upperLetters == <<"A", "B", "C", "D", "E", "F", "G", "H", "I", "J", "K", "L", "M",
                  "N", "O", "P", "Q", "R", "S", "T", "U", "V", "W", "X", "Y", "Z">>
lowerLetters == <<"a", "b", "c", "d", "e", "f", "g", "h", "i", "j", "k", "l", "m",
                  "n", "o", "p", "q", "r", "s", "t", "u", "v", "w", "x", "y", "z">>
\* strings.ToLower
ToLower(s) ==
    [i \in DOMAIN s |->
        IF \E k \in DOMAIN upperLetters : upperLetters[k] = s[i]
        THEN lowerLetters[CHOOSE k \in DOMAIN upperLetters : upperLetters[k] = s[i]]
        ELSE s[i]]

digits == <<"0", "1", "2", "3", "4", "5", "6", "7", "8", "9">>
isDigit(ch) == \E k \in DOMAIN digits : digits[k] = ch
digitValue(ch) == (CHOOSE k \in DOMAIN digits : digits[k] = ch) - 1

RECURSIVE decimal(_)
decimal(s) == IF s = <<>> THEN 0 ELSE 10 * decimal(SubSeq(s, 1, Len(s) - 1)) + digitValue(s[Len(s)])

\* strconv.Atoi: an optional sign and at least one decimal digit
Atoi(s) ==
    LET signed == s # <<>> /\ Head(s) \in {"+", "-"}
        body == IF signed THEN Tail(s) ELSE s
    IN  IF body = <<>> \/ \E i \in DOMAIN body : ~isDigit(body[i])
        THEN [err |-> TRUE, value |-> 0]
        ELSE [err |-> FALSE,
              value |-> IF signed /\ Head(s) = "-" THEN 0 - decimal(body) ELSE decimal(body)]

kindContext == <<"c", "o", "n", "t", "e", "x", "t">>
kindCluster == <<"c", "l", "u", "s", "t", "e", "r">>
kindUser == <<"u", "s", "e", "r">>
reasonContext == <<"d", "i", "f", "f", "e", "r", "e", "n", "t", " ", "c", "o", "n", "f", "i", "g", "u", "r", "a", "t", "i", "o", "n">>
reasonCluster == <<"d", "i", "f", "f", "e", "r", "e", "n", "t", " ", "s", "e", "r", "v", "e", "r", "/", "a", "u", "t", "h">>
reasonUser == <<"d", "i", "f", "f", "e", "r", "e", "n", "t", " ", "c", "r", "e", "d", "e", "n", "t", "i", "a", "l", "s">>

\* fmt.Sprintf("<kind> '%s' (<reason>)", name)
Sprintf(kind, name, reason) ==
    kind \o <<" ", "'">> \o name \o <<"'", " ", "(">> \o reason \o <<")">>

(***************************************************************************)
(* The kubeconfig document                                                 *)
(***************************************************************************)
baseContext == [Cluster |-> An, User |-> An, Namespace |-> ""]
ContextBodies == {baseContext,
                  [baseContext EXCEPT !.Cluster = Bn],
                  [baseContext EXCEPT !.User = Bn],
                  [baseContext EXCEPT !.Namespace = "ns"]}

baseCluster == [Server |-> "https://a", CertificateAuthorityData |-> "",
                CertificateAuthority |-> "", InsecureSkipTLSVerify |-> FALSE]
ClusterBodies == {baseCluster,
                  [baseCluster EXCEPT !.Server = "https://b"],
                  [baseCluster EXCEPT !.CertificateAuthorityData = "ca"],
                  [baseCluster EXCEPT !.CertificateAuthority = "/ca.crt"],
                  [baseCluster EXCEPT !.InsecureSkipTLSVerify = TRUE]}

baseUser == [AuthProvider |-> Nil, Exec |-> Nil,
             ClientCertificateData |-> "", ClientKeyData |-> "",
             ClientCertificate |-> "", ClientKey |-> "",
             Token |-> "t1", Username |-> "", Password |-> ""]
UserBodies == {baseUser,
               [baseUser EXCEPT !.Token = "t2"],
               [baseUser EXCEPT !.ClientCertificateData = "cert"],
               [baseUser EXCEPT !.ClientKeyData = "key"],
               [baseUser EXCEPT !.ClientCertificate = "/c.crt"],
               [baseUser EXCEPT !.ClientKey = "/c.key"],
               [baseUser EXCEPT !.Username = "admin"],
               [baseUser EXCEPT !.Password = "secret"],
               [baseUser EXCEPT !.Exec = [Command |-> "aws"]],
               [baseUser EXCEPT !.Exec = [Command |-> "gcloud"]],
               [baseUser EXCEPT !.AuthProvider = [Name |-> "oidc", Config |-> "c1"]],
               [baseUser EXCEPT !.AuthProvider = [Name |-> "gcp", Config |-> "c1"]],
               [baseUser EXCEPT !.AuthProvider = [Name |-> "oidc", Config |-> "c2"]]}

\* a list entry: NamedContext / NamedCluster / NamedUser (Body is Nil when
\* the YAML entry has a name but no body)
Named(n, b) == [Name |-> n, Body |-> b]

\* the parsed document, before the lookup maps are built
Document(ctxs, clus, usrs, cur) ==
    [Contexts |-> ctxs, Clusters |-> clus, Users |-> usrs, CurrentContext |-> cur]

NamesOf(list) == {list[i].Name : i \in DOMAIN list}

HasBody(e) == e.Body # Nil

\* the entry that a Go map built by assigning in list order ends up with;
\* skipNil is the nil check that buildInternalMaps makes before assigning
LastIndex(list, n, skipNil) ==
    SetMax({i \in DOMAIN list : list[i].Name = n /\ (skipNil => HasBody(list[i]))})

buildInternalMaps(c) ==
    LET mapOf(list) ==
            [n \in {list[i].Name : i \in {j \in DOMAIN list : HasBody(list[j])}} |->
                list[LastIndex(list, n, TRUE)].Body]
    IN  [Contexts |-> c.Contexts, Clusters |-> c.Clusters, Users |-> c.Users,
         CurrentContext |-> c.CurrentContext,
         contextMap |-> mapOf(c.Contexts),
         clusterMap |-> mapOf(c.Clusters),
         userMap |-> mapOf(c.Users)]

GetContext(c, name) == IF name \in DOMAIN c.contextMap THEN c.contextMap[name] ELSE Nil

(***************************************************************************)
(* Conflict analysis                                                       *)
(***************************************************************************)
\* contextsEqual with the namespace left out of the comparison
contextsEqualNoNamespace(a, b) ==
    a.Cluster = b.Cluster /\ a.User = b.User

contextsEqual(a, b) ==
    a.Cluster = b.Cluster /\ a.User = b.User /\ a.Namespace = b.Namespace

clustersEqual(a, b) ==
    /\ a.Server = b.Server
    /\ a.CertificateAuthorityData = b.CertificateAuthorityData
    /\ a.CertificateAuthority = b.CertificateAuthority
    /\ a.InsecureSkipTLSVerify = b.InsecureSkipTLSVerify

usersEqual(a, b) ==
    /\ a.ClientCertificateData = b.ClientCertificateData
    /\ a.ClientKeyData = b.ClientKeyData
    /\ a.ClientCertificate = b.ClientCertificate
    /\ a.ClientKey = b.ClientKey
    /\ a.Token = b.Token
    /\ a.Username = b.Username
    /\ a.Password = b.Password

\* the map the cluster and user loops build: the bare pointer of every entry,
\* nil ones included, the last entry of a name winning
pointerMap(list) ==
    [n \in NamesOf(list) |-> list[LastIndex(list, n, FALSE)].Body]

\* acc = [panicked, conflicts]; a nil pointer handed to an ...Equal helper is
\* dereferenced there and the process panics
RECURSIVE contextLoop(_, _, _, _)
contextLoop(cur, bak, i, acc) ==
    IF acc.panicked \/ i > Len(bak.Contexts) THEN acc
    ELSE LET backupContext == bak.Contexts[i]
             currentContext == GetContext(cur, backupContext.Name)
         IN  IF currentContext = Nil THEN contextLoop(cur, bak, i + 1, acc)
             ELSE IF backupContext.Body = Nil
                  THEN [acc EXCEPT !.panicked = TRUE]
             ELSE IF ~contextsEqual(currentContext, backupContext.Body)
                  THEN contextLoop(cur, bak, i + 1,
                         [acc EXCEPT !.conflicts =
                            Append(@, Sprintf(kindContext, backupContext.Name, reasonContext))])
             ELSE contextLoop(cur, bak, i + 1, acc)

RECURSIVE clusterLoop(_, _, _, _)
clusterLoop(currentClusters, bak, i, acc) ==
    IF acc.panicked \/ i > Len(bak.Clusters) THEN acc
    ELSE LET backupCluster == bak.Clusters[i]
         IN  IF backupCluster.Name \notin DOMAIN currentClusters
             THEN clusterLoop(currentClusters, bak, i + 1, acc)
             ELSE IF currentClusters[backupCluster.Name] = Nil \/ backupCluster.Body = Nil
                  THEN [acc EXCEPT !.panicked = TRUE]
             ELSE IF ~clustersEqual(currentClusters[backupCluster.Name], backupCluster.Body)
                  THEN clusterLoop(currentClusters, bak, i + 1,
                         [acc EXCEPT !.conflicts =
                            Append(@, Sprintf(kindCluster, backupCluster.Name, reasonCluster))])
             ELSE clusterLoop(currentClusters, bak, i + 1, acc)

RECURSIVE userLoop(_, _, _, _)
userLoop(currentUsers, bak, i, acc) ==
    IF acc.panicked \/ i > Len(bak.Users) THEN acc
    ELSE LET backupUser == bak.Users[i]
         IN  IF backupUser.Name \notin DOMAIN currentUsers
             THEN userLoop(currentUsers, bak, i + 1, acc)
             ELSE IF currentUsers[backupUser.Name] = Nil \/ backupUser.Body = Nil
                  THEN [acc EXCEPT !.panicked = TRUE]
             ELSE IF ~usersEqual(currentUsers[backupUser.Name], backupUser.Body)
                  THEN userLoop(currentUsers, bak, i + 1,
                         [acc EXCEPT !.conflicts =
                            Append(@, Sprintf(kindUser, backupUser.Name, reasonUser))])
             ELSE userLoop(currentUsers, bak, i + 1, acc)

analyzeRestoreConflicts(cur, bak) ==
    LET afterContexts == contextLoop(cur, bak, 1, [panicked |-> FALSE, conflicts |-> <<>>])
        afterClusters == clusterLoop(pointerMap(cur.Clusters), bak, 1, afterContexts)
        afterUsers == userLoop(pointerMap(cur.Users), bak, 1, afterClusters)
    IN  IF afterUsers.panicked THEN [panicked |-> TRUE, conflicts |-> <<>>] ELSE afterUsers

(***************************************************************************)
(* Inputs of the conflict analysis: pairs of loaded documents.             *)
(*  - field-shaped: one entry "a" per list, every body of the body sets;   *)
(*  - list-shaped: lists of up to MaxEntries entries over two names, with  *)
(*    repeated names and entries without a body.                           *)
(***************************************************************************)
variantContext == [baseContext EXCEPT !.Namespace = "ns"]
variantCluster == [baseCluster EXCEPT !.Server = "https://b"]
variantUser == [baseUser EXCEPT !.Token = "t2"]

baseOf(kind) == CASE kind = "context" -> baseContext
                  [] kind = "cluster" -> baseCluster
                  [] kind = "user" -> baseUser
variantOf(kind) == CASE kind = "context" -> variantContext
                     [] kind = "cluster" -> variantCluster
                     [] kind = "user" -> variantUser
bodiesOf(kind) == CASE kind = "context" -> ContextBodies
                    [] kind = "cluster" -> ClusterBodies
                    [] kind = "user" -> UserBodies

Kinds == {"context", "cluster", "user"}

\* the pairs (live list, backup list) of one kind
FieldPairs(kind) ==
    {<<l, b>> : l \in {<<Named(An, x)>> : x \in bodiesOf(kind) \cup {Nil}},
                b \in {<<Named(An, x)>> : x \in bodiesOf(kind) \cup {Nil}}}
ListPairs(kind) ==
    LET entries == {Named(n, x) : n \in Names, x \in {baseOf(kind), variantOf(kind), Nil}}
    IN  SeqUpTo(entries, MaxEntries) \X SeqUpTo(entries, MaxEntries)
\* what the two other lists hold: nothing, or one differing entry "a" each
RestPairs(kind) ==
    {<<(<<>>), (<<>>)>>, <<(<<Named(An, baseOf(kind))>>), (<<Named(An, variantOf(kind))>>)>>}

DocumentPairs ==
    {<<Document(c[1], k[1], u[1], <<>>), Document(c[2], k[2], u[2], <<>>)>> :
        <<c, k, u>> \in
            UNION {
              (FieldPairs("context") \cup ListPairs("context"))
                  \X {r \in RestPairs("cluster") : r[1] = <<>> <=> rest = 0}
                  \X {r \in RestPairs("user") : r[1] = <<>> <=> rest = 0}
              \cup
              {r \in RestPairs("context") : r[1] = <<>> <=> rest = 0}
                  \X (FieldPairs("cluster") \cup ListPairs("cluster"))
                  \X {r \in RestPairs("user") : r[1] = <<>> <=> rest = 0}
              \cup
              {r \in RestPairs("context") : r[1] = <<>> <=> rest = 0}
                  \X {r \in RestPairs("cluster") : r[1] = <<>> <=> rest = 0}
                  \X (FieldPairs("user") \cup ListPairs("user"))
              : rest \in {0, 1}}}

NoAnalysis == [panicked |-> FALSE, conflicts |-> <<>>]
NoDecision == [shouldBackup |-> FALSE, reason |-> "", conflicts |-> <<>>]
NoFiles == [p \in {} |-> Nil]
NoReplies == [selection |-> "none", confirmation |-> "none"]

\* no restore run is under way
RunIdle ==
    /\ files = NoFiles /\ files0 = NoFiles
    /\ noBackup = FALSE /\ keepBackup = FALSE
    /\ now = 0
    /\ backups = <<>> /\ selectedBackup = Nil
    /\ decision = NoDecision
    /\ exit = "none"
    /\ answer = Nil /\ prompts = 0 /\ written = {} /\ overwrote = FALSE /\ failed = "none"
    /\ replies = NoReplies

\* no directory is being listed and no cleanup run is under way
CleanIdle ==
    /\ dirEntries = {} /\ call = Nil /\ ret = Nil /\ stdin = <<>> /\ reader = <<>>
    /\ dryRun = FALSE /\ authCheck = FALSE /\ interactive = FALSE
    /\ cfg = Nil /\ kConfig = Nil /\ kConfig0 = Nil
    /\ contextsToRemove = <<>>
    /\ probe = Nil

InitAnalyze ==
    /\ pc = "input"
    /\ \E p \in DocumentPairs :
          /\ current = buildInternalMaps(p[1])
          /\ backup = buildInternalMaps(p[2])
    /\ analysis = NoAnalysis
    /\ items = <<>>
    /\ selective = Nil
    /\ RunIdle
    /\ CleanIdle

Analyze ==
    /\ pc = "input"
    /\ analysis' = analyzeRestoreConflicts(current, backup)
    /\ pc' = "analyzed"
    /\ UNCHANGED <<current, backup, items, selective, runVars, histVars, catalogVars, cleanVars>>

NextAnalyze == Analyze

SpecAnalyze == InitAnalyze /\ [][NextAnalyze]_vars

(***************************************************************************)
(* Properties of the conflict analysis                                     *)
(***************************************************************************)
Range(seq) == {seq[i] : i \in DOMAIN seq}

\* the data model of a document: a name is a unique key of its list and
\* every entry has a body
UniqueBodied(list) ==
    /\ \A i, j \in DOMAIN list : list[i].Name = list[j].Name => i = j
    /\ \A i \in DOMAIN list : list[i].Body # Nil
DataModel(c) ==
    UniqueBodied(c.Contexts) /\ UniqueBodied(c.Clusters) /\ UniqueBodied(c.Users)

EntityOf(list, n) == list[CHOOSE i \in DOMAIN list : list[i].Name = n].Body

\* the entries of the backup list whose name the live list has too, with a
\* different entity, in backup order, as conflict descriptions
RECURSIVE Diverging(_, _, _, _)
Diverging(liveList, backupList, kind, reason) ==
    IF backupList = <<>> THEN <<>>
    ELSE LET e == Head(backupList)
             rest == Diverging(liveList, Tail(backupList), kind, reason)
         IN  IF e.Name \in NamesOf(liveList) /\ EntityOf(liveList, e.Name) # e.Body
             THEN <<Sprintf(kind, e.Name, reason)>> \o rest
             ELSE rest

\* C4: for every user name present in both documents, a user conflict is
\* reported whenever the two users differ in any field of the credential set
\* (token, client certificate and key as data or file, username, password,
\* exec descriptor, auth-provider descriptor).
C4_UserConflictWheneverUsersDiffer ==
    (pc = "analyzed" /\ DataModel(current) /\ DataModel(backup)) =>
        /\ ~analysis.panicked
        /\ \A n \in NamesOf(current.Users) \cap NamesOf(backup.Users) :
              EntityOf(current.Users, n) # EntityOf(backup.Users, n)
                  => Sprintf(kindUser, n, reasonUser) \in Range(analysis.conflicts)

C6_IdenticalDocumentsHaveNoConflicts ==
    (pc = "analyzed" /\ current = backup) =>
        ~analysis.panicked /\ analysis.conflicts = <<>>

(***************************************************************************)
(* Selective backup                                                        *)
(***************************************************************************)
extractNameFromConflict(conflict, itemType) ==
    LET marker == itemType \o <<" ", "'">>
        found == Index(conflict, marker)
    IN  IF found = -1 THEN <<>>
        ELSE LET start == found + Len(marker)
                 tail == SubSeq(conflict, start + 1, Len(conflict))
                 end == Index(tail, <<"'">>)
             IN  IF end = -1 THEN <<>> ELSE SubSeq(conflict, start + 1, start + end)

\* which branch of the if / else-if chain a conflict description takes
conflictBranch(conflict) ==
    IF Contains(conflict, kindContext \o <<" ", "'">>) THEN "context"
    ELSE IF Contains(conflict, kindCluster \o <<" ", "'">>) THEN "cluster"
    ELSE IF Contains(conflict, kindUser \o <<" ", "'">>) THEN "user"
    ELSE "none"

\* appendSelected on lists that start as copies of the live lists
appendSelectedToCopy(list, wanted) ==
    LET keep(e) == e.Name \in wanted IN list \o SelectSeq(list, keep)

\* the entries of a live list that are appended to the selective list
appendSelected(list, wanted) ==
    LET keep(e) == e.Name \in wanted IN SelectSeq(list, keep)

\* the document createSelectiveBackup saves, from the loaded live config
selectiveConfig(currentConfig, conflicts) ==
    LET ofBranch(b) == {conflicts[i] : i \in {j \in DOMAIN conflicts : conflictBranch(conflicts[j]) = b}}
        conflictingContexts == {extractNameFromConflict(c, kindContext) : c \in ofBranch("context")}
        related == {GetContext(currentConfig, n) : n \in conflictingContexts} \ {Nil}
        conflictingClusters ==
            {extractNameFromConflict(c, kindCluster) : c \in ofBranch("cluster")}
                \cup {ctx.Cluster : ctx \in related}
        conflictingUsers ==
            {extractNameFromConflict(c, kindUser) : c \in ofBranch("user")}
                \cup {ctx.User : ctx \in related}
    IN  Document(appendSelected(currentConfig.Contexts, conflictingContexts),
                 appendSelected(currentConfig.Clusters, conflictingClusters),
                 appendSelected(currentConfig.Users, conflictingUsers),
                 <<>>)

(***************************************************************************)
(* Inputs of createSelectiveBackup on its own: a live document and a list  *)
(* of conflicts, each the description of a kind and a name.                *)
(***************************************************************************)
\* a name with an apostrophe in it
Qn == <<"a", "'", "b">>

kindOf(kind) == CASE kind = "context" -> kindContext
                  [] kind = "cluster" -> kindCluster
                  [] kind = "user" -> kindUser
reasonOf(kind) == CASE kind = "context" -> reasonContext
                    [] kind = "cluster" -> reasonCluster
                    [] kind = "user" -> reasonUser

Describe(item) == Sprintf(kindOf(item.kind), item.name, reasonOf(item.kind))
DescribeAll(its) == [i \in DOMAIN its |-> Describe(its[i])]

RECURSIVE SubLists(_)
SubLists(list) ==
    IF list = <<>> THEN {<<>>}
    ELSE LET rest == SubLists(Tail(list))
         IN  rest \cup {<<Head(list)>> \o r : r \in rest}

LiveDocuments ==
    {Document(c, k, u, <<>>) :
        c \in SeqUpTo({Named(An, baseContext), Named(Bn, baseContext),
                       Named(Bn, [Cluster |-> Bn, User |-> Qn, Namespace |-> ""]),
                       Named(An, Nil)},
                      MaxEntries),
        k \in SubLists(<<Named(An, baseCluster), Named(Bn, variantCluster)>>),
        u \in SubLists(<<Named(An, baseUser), Named(Qn, variantUser)>>)}

ConflictItems ==
    {[kind |-> "context", name |-> n] : n \in Names}
        \cup {[kind |-> "cluster", name |-> n] : n \in Names}
        \cup {[kind |-> "user", name |-> n] : n \in Names \cup {Qn}}

InitSelective ==
    /\ pc = "input"
    /\ \E d \in LiveDocuments : current = buildInternalMaps(d)
    /\ items \in SeqUpTo(ConflictItems, MaxConflicts)
    /\ backup = Nil
    /\ analysis = NoAnalysis
    /\ selective = Nil
    /\ RunIdle
    /\ CleanIdle

Select ==
    /\ pc = "input"
    /\ selective' = selectiveConfig(current, DescribeAll(items))
    /\ pc' = "selected"
    /\ UNCHANGED <<current, backup, analysis, items, runVars, histVars, catalogVars, cleanVars>>

NextSelective == Select

SpecSelective == InitSelective /\ [][NextSelective]_vars

(***************************************************************************)
(* Properties of the selective backup                                      *)
(***************************************************************************)
ItemNames(kind) == {items[i].name : i \in {j \in DOMAIN items : items[j].kind = kind}}

\* the entries of a live list whose name is in a set, with their live content
LiveEntries(list, wanted) ==
    LET keep(e) == e.Name \in wanted IN SelectSeq(list, keep)

\* C9: the selective backup holds exactly the live contexts named by a
\* context conflict, the live clusters named by a cluster conflict or
\* referenced by an included context, and the live users named by a user
\* conflict or referenced by an included context, each with its live content.
C9_SelectiveBackupHoldsExactlyConflictsAndReferences ==
    (pc = "selected" /\ DataModel(current)) =>
        LET included == LiveEntries(current.Contexts, ItemNames("context"))
        IN  /\ selective.Contexts = included
            /\ selective.Clusters =
                  LiveEntries(current.Clusters,
                      ItemNames("cluster") \cup {included[i].Body.Cluster : i \in DOMAIN included})
            /\ selective.Users =
                  LiveEntries(current.Users,
                      ItemNames("user") \cup {included[i].Body.User : i \in DOMAIN included})

\* the same, for conflicts whose names hold no apostrophe (not a claim of its
\* own: it delimits what breaks C9)
PlainNamesOnly == \A i \in DOMAIN items : ~Contains(items[i].name, <<"'">>)
SelectiveBackupExactForPlainNames ==
    PlainNamesOnly => C9_SelectiveBackupHoldsExactlyConflictsAndReferences

Entities(doc) ==
    {<<"context", n>> : n \in NamesOf(doc.Contexts)}
        \cup {<<"cluster", n>> : n \in NamesOf(doc.Clusters)}
        \cup {<<"user", n>> : n \in NamesOf(doc.Users)}
Total(doc) == Len(doc.Contexts) + Len(doc.Clusters) + Len(doc.Users)
ConflictingEntities == {<<items[i].kind, items[i].name>> : i \in DOMAIN items}
ProperSubset(A, B) == A \subseteq B /\ A # B

RECURSIVE IsSubList(_, _)
IsSubList(s, t) ==
    IF s = <<>> THEN TRUE
    ELSE IF t = <<>> THEN FALSE
    ELSE IF Head(s) = Head(t) THEN IsSubList(Tail(s), Tail(t))
    ELSE IsSubList(s, Tail(t))

kubeConfig == [suffix |-> "", ts |-> 0]
backupPathOf(t) == [suffix |-> ".backup.", ts |-> t]
selectivePathOf(t) == [suffix |-> ".selective-backup.", ts |-> t]

Yaml(doc) == [kind |-> "yaml", doc |-> doc]
Garbage == [kind |-> "garbage"]

Exists(fs, path) == path \in DOMAIN fs
WriteFile(fs, path, content) == (path :> content) @@ fs
Remove(fs, path) == [q \in DOMAIN fs \ {path} |-> fs[q]]

\* kubeconfig.Load
Load(fs, path) ==
    IF ~Exists(fs, path) \/ fs[path].kind # "yaml"
    THEN [err |-> TRUE, config |-> Nil]
    ELSE [err |-> FALSE, config |-> buildInternalMaps(fs[path].doc)]

\* how a write can go: done, refused when the file is opened (nothing
\* changes), or broken off after the file was truncated
WriteOutcomes == {"ok", "refused", "partial"}
Written(fs, path, content, outcome) ==
    CASE outcome = "ok" -> WriteFile(fs, path, content)
      [] outcome = "refused" -> fs
      [] outcome = "partial" -> WriteFile(fs, path, Garbage)

RECURSIVE newestFirst(_)
newestFirst(times) ==
    IF times = {} THEN <<>>
    ELSE <<SetMax(times)>> \o newestFirst(times \ {SetMax(times)})

\* findBackups: the entries <kubeconfig>.backup.<timestamp>, newest first
findBackups(fs) ==
    LET times == {p.ts : p \in {q \in DOMAIN fs : q.suffix = ".backup."}}
        order == newestFirst(times)
    IN  [i \in DOMAIN order |-> [Path |-> backupPathOf(order[i]), Time |-> order[i]]]

(***************************************************************************)
(* Prompts                                                                 *)
(***************************************************************************)
\* reader.ReadString('\n') returned an error (closed or failing input)
ReadError == [err |-> TRUE, line |-> <<>>]
Line(chars) == [err |-> FALSE, line |-> chars]

yes == <<"y", "e", "s">>
no == <<"n", "o">>
choiceNone == "none"
choiceSelective == "selective"
choiceFull == "full"
choiceCancel == "cancel"

\* getUserSelection taking a line that is not a number for a cancel
getUserSelectionCancelingOnText(input, maxOptions) ==
    IF input.err THEN [again |-> FALSE, err |-> TRUE, selection |-> 0]
    ELSE LET n == Atoi(TrimSpace(input.line))
         IN  IF n.err \/ n.value = 0 THEN [again |-> FALSE, err |-> FALSE, selection |-> 0]
             ELSE IF n.value < 1 \/ n.value > maxOptions
                  THEN [again |-> TRUE, err |-> FALSE, selection |-> 0]
             ELSE [again |-> FALSE, err |-> FALSE, selection |-> n.value]

\* the outcome of one pass of the loop of getUserSelection
getUserSelection(input, maxOptions) ==
    IF input.err THEN [again |-> FALSE, err |-> TRUE, selection |-> 0]
    ELSE LET n == Atoi(TrimSpace(input.line))
         IN  IF n.err THEN [again |-> TRUE, err |-> FALSE, selection |-> 0]
             ELSE IF n.value = 0 THEN [again |-> FALSE, err |-> FALSE, selection |-> 0]
             ELSE IF n.value < 1 \/ n.value > maxOptions
                  THEN [again |-> TRUE, err |-> FALSE, selection |-> 0]
             ELSE [again |-> FALSE, err |-> FALSE, selection |-> n.value]

\* confirmRestore taking the empty answer for a yes
confirmRestoreDefaultsToYes(input) ==
    IF input.err THEN FALSE
    ELSE LET response == TrimSpace(ToLower(input.line))
         IN  response = <<>> \/ response = <<"y">> \/ response = yes

confirmRestore(input) ==
    IF input.err THEN FALSE
    ELSE LET response == TrimSpace(ToLower(input.line))
         IN  response = <<"y">> \/ response = yes

askUserAboutConflicts(input) ==
    IF input.err THEN choiceCancel
    ELSE LET response == TrimSpace(ToLower(input.line))
         IN  CASE response \in {<<"n">>, no} -> choiceNone
               [] response \in {<<"s">>, <<"s", "e", "l", "e", "c", "t", "i", "v", "e">>} -> choiceSelective
               [] response \in {<<"f">>, <<"f", "u", "l", "l">>} -> choiceFull
               [] response \in {<<"c">>, <<"c", "a", "n", "c", "e", "l">>} -> choiceCancel
               [] OTHER -> choiceCancel

\* loadFailureDecision answering "no backup"
loadFailureDecisionSkips(reason) == [shouldBackup |-> FALSE, reason |-> reason, conflicts |-> <<>>]

\* shouldCreateBackupBeforeRestore when a document does not load: back up,
\* with no conflict list
loadFailureDecision(reason) == [shouldBackup |-> TRUE, reason |-> reason, conflicts |-> <<>>]

\* noConflictDecision answering "back up"
noConflictDecisionBacksUp ==
    [shouldBackup |-> TRUE,
     reason |-> "no conflicts detected - backup contexts can be safely merged",
     conflicts |-> <<>>]

\* shouldCreateBackupBeforeRestore when the analysis finds no conflict
noConflictDecision ==
    [shouldBackup |-> FALSE,
     reason |-> "no conflicts detected - backup contexts can be safely merged",
     conflicts |-> <<>>]

\* decisionOfChoice handing the conflicts on for the full backup too
decisionOfChoiceFullCarriesConflicts(choice, conflicts) ==
    CASE choice = choiceNone ->
            [shouldBackup |-> FALSE, reason |-> "user chose to proceed without backup",
             conflicts |-> <<>>]
      [] choice \in {choiceSelective, choiceFull} ->
            [shouldBackup |-> TRUE,
             reason |-> "user chose selective backup of conflicting contexts",
             conflicts |-> conflicts]
      [] OTHER ->
            [shouldBackup |-> FALSE, reason |-> "restore canceled by user", conflicts |-> <<>>]

\* the switch of shouldCreateBackupBeforeRestore on the operator's choice
decisionOfChoice(choice, conflicts) ==
    CASE choice = choiceNone ->
            [shouldBackup |-> FALSE, reason |-> "user chose to proceed without backup",
             conflicts |-> <<>>]
      [] choice = choiceSelective ->
            [shouldBackup |-> TRUE,
             reason |-> "user chose selective backup of conflicting contexts",
             conflicts |-> conflicts]
      [] choice = choiceFull ->
            [shouldBackup |-> TRUE, reason |-> "user chose full backup", conflicts |-> <<>>]
      [] OTHER ->
            [shouldBackup |-> FALSE, reason |-> "restore canceled by user", conflicts |-> <<>>]

(***************************************************************************)
(* Backups written before the overwrite, and the overwrite                 *)
(***************************************************************************)
\* kubeconfig.CreateBackup: byte copy of the file to <path>.backup.<now>
CreateBackup(fs, path, t, outcome) ==
    LET backupPath == backupPathOf(t)
    IN  IF ~Exists(fs, path) THEN [err |-> TRUE, fs |-> fs, path |-> backupPath]
        ELSE [err |-> outcome # "ok",
              fs |-> Written(fs, backupPath, fs[path], outcome),
              path |-> backupPath]

\* createSelectiveBackup: load the live kubeconfig, keep what the conflicts
\* name, save as <path>.selective-backup.<now>
createSelectiveBackup(fs, path, conflicts, t, outcome) ==
    LET currentConfig == Load(fs, path)
        backupPath == selectivePathOf(t)
    IN  IF currentConfig.err THEN [err |-> TRUE, fs |-> fs, path |-> backupPath]
        ELSE [err |-> outcome # "ok",
              fs |-> Written(fs, backupPath,
                             Yaml(selectiveConfig(currentConfig.config, conflicts)), outcome),
              path |-> backupPath]

\* restoreFromBackup: read the backup, write its bytes to the kubeconfig
restoreFromBackup(fs, backupPath, kubeconfigPath, readable, outcome) ==
    IF ~Exists(fs, backupPath) \/ ~readable THEN [err |-> TRUE, fs |-> fs, wrote |-> FALSE]
    ELSE [err |-> outcome # "ok",
          fs |-> Written(fs, kubeconfigPath, fs[backupPath], outcome),
          wrote |-> outcome # "refused"]

(***************************************************************************)
(* One restore run (runRestore)                                            *)
(***************************************************************************)
Times == 1..MaxTime

\* the documents of the runs: one context "a" with its cluster and user ...
docOne == Document(<<Named(An, baseContext)>>, <<Named(An, baseCluster)>>,
                   <<Named(An, baseUser)>>, An)
\* ... a second context "b" with a cluster and a user of its own ...
docTwo == Document(<<Named(An, baseContext), Named(Bn, [Cluster |-> Bn, User |-> Bn, Namespace |-> ""])>>,
                   <<Named(An, baseCluster), Named(Bn, variantCluster)>>,
                   <<Named(An, baseUser), Named(Bn, variantUser)>>, Bn)
\* ... and docOne with one entity changed, or with a user entry without body
docOtherNamespace == [docOne EXCEPT !.Contexts = <<Named(An, variantContext)>>]
docOtherServer == [docOne EXCEPT !.Clusters = <<Named(An, variantCluster)>>]
docOtherToken == [docOne EXCEPT !.Users = <<Named(An, variantUser)>>]
docOtherExec == [docOne EXCEPT !.Users = <<Named(An, [baseUser EXCEPT !.Exec = [Command |-> "aws"]])>>]
docBodilessUser == [docOne EXCEPT !.Users = <<Named(An, Nil)>>]

Absent == [kind |-> "absent"]
LiveContents == {Yaml(docOne), Yaml(docTwo), Yaml(docBodilessUser), Garbage, Absent}
BackupContents == {Yaml(docOne), Yaml(docOtherNamespace), Yaml(docOtherServer),
                   Yaml(docOtherToken), Yaml(docOtherExec), Garbage, Absent}

SelectionInputs ==
    {ReadError} \cup {Line(l) : l \in {<<"0">>, <<"1">>, <<"2">>, <<"3">>, <<" ", "1", " ">>,
                                        <<"+", "2">>, <<"-", "1">>, <<"x">>, <<>>}}
ConfirmInputs ==
    {ReadError} \cup {Line(l) : l \in {<<"y">>, yes, <<" ", "Y", "e", "s", " ">>, <<"Y">>,
                                        <<"n">>, <<"y", "e">>, <<>>}}
ChoiceInputs ==
    {ReadError} \cup {Line(l) : l \in {<<"n">>, no, <<"N", "o">>,
                                        <<"s">>, <<"s", "e", "l", "e", "c", "t", "i", "v", "e">>, <<" ", "S", " ">>,
                                        <<"f">>, <<"f", "u", "l", "l">>, <<"F", "U", "L", "L">>,
                                        <<"c">>, <<"c", "a", "n", "c", "e", "l">>,
                                        <<"x">>, <<"y">>, <<>>}}

\* the same letter, whatever the case
SameLetter(c, d) ==
    c = d \/ \E k \in DOMAIN upperLetters :
                {c, d} = {upperLetters[k], lowerLetters[k]}
\* the line is the word, in any case, between any white space
Says(input, words) ==
    /\ input # Nil
    /\ ~input.err
    /\ \E w \in words : \E i \in 0..Len(input.line) :
          /\ i + Len(w) <= Len(input.line)
          /\ \A k \in 1..i : isSpace(input.line[k])
          /\ \A k \in 1..Len(w) : SameLetter(input.line[i + k], w[k])
          /\ \A k \in (i + Len(w) + 1)..Len(input.line) : isSpace(input.line[k])

wordsYes == {<<"y">>, <<"y", "e", "s">>}

\* what the operator did at the selection prompt: closed the input, entered
\* 0, or entered something else
SelectionReply(input) ==
    IF input.err THEN "closed"
    ELSE IF Says(input, {<<"0">>}) THEN "zero"
    ELSE "other"

\* what the operator did at the confirmation prompt: closed the input,
\* answered y or yes, or answered something else
ConfirmationReply(input) ==
    IF input.err THEN "closed"
    ELSE IF Says(input, wordsYes) THEN "yes"
    ELSE "other"

Init ==
    /\ pc = "start"
    /\ \E live \in LiveContents, older \in [Times -> BackupContents] :
          files = [p \in {q \in {kubeConfig} : live # Absent}
                            \cup {backupPathOf(t) : t \in {u \in Times : older[u] # Absent}} |->
                      IF p = kubeConfig THEN live ELSE older[p.ts]]
    /\ files0 = files
    /\ noBackup \in BOOLEAN
    /\ keepBackup \in BOOLEAN
    \* every backup was made in the past, or in this very second
    /\ now \in {t \in Times : \A p \in DOMAIN files : p.ts <= t}
    /\ backups = <<>> /\ selectedBackup = Nil
    /\ decision = NoDecision
    /\ exit = "none"
    /\ answer = Nil /\ prompts = 0 /\ written = {} /\ overwrote = FALSE /\ failed = "none"
    /\ replies = NoReplies
    /\ analysis = NoAnalysis
    /\ current = Nil /\ backup = Nil /\ items = <<>> /\ selective = Nil
    /\ CleanIdle

Finish(status, step) ==
    /\ pc' = "done"
    /\ exit' = status
    /\ failed' = step

\* list the backups; none: nothing to do
FindBackups ==
    /\ pc = "start"
    /\ backups' = findBackups(files)
    /\ IF Len(backups') = 0
       THEN Finish("ok", "none")
       ELSE pc' = "select" /\ UNCHANGED <<exit, failed>>
    /\ UNCHANGED <<analysis, pureVars, catalogVars, cleanVars, files, noBackup, keepBackup, now, selectedBackup,
                   decision, files0, replies, answer, prompts, written, overwrote>>

\* one line at the selection prompt
GetUserSelection ==
    /\ pc = "select"
    /\ \E input \in SelectionInputs :
          LET r == getUserSelection(input, Len(backups))
          IN  /\ replies' = [replies EXCEPT !.selection = SelectionReply(input)]
              /\ CASE r.err -> Finish("error", "select") /\ UNCHANGED selectedBackup
                   [] r.again -> UNCHANGED <<pc, exit, failed, selectedBackup>>
                   [] r.selection = 0 -> Finish("ok", "none") /\ UNCHANGED selectedBackup
                   [] OTHER -> /\ selectedBackup' = backups[r.selection]
                               /\ pc' = "confirm"
                               /\ UNCHANGED <<exit, failed>>
    /\ UNCHANGED <<analysis, pureVars, catalogVars, cleanVars, files, noBackup, keepBackup, now, backups,
                   decision, files0, answer, prompts, written, overwrote>>

\* the confirmation prompt
ConfirmRestore ==
    /\ pc = "confirm"
    /\ \E input \in ConfirmInputs :
          /\ replies' = [replies EXCEPT !.confirmation = ConfirmationReply(input)]
          /\ IF confirmRestore(input)
             THEN pc' = "decide" /\ UNCHANGED <<exit, failed>>
             ELSE Finish("ok", "none")
    /\ UNCHANGED <<analysis, pureVars, catalogVars, cleanVars, files, noBackup, keepBackup, now, backups,
                   selectedBackup, decision, files0, answer, prompts, written, overwrote>>

\* --no-backup: straight to the overwrite
SkipBackupByFlag ==
    /\ pc = "decide"
    /\ noBackup
    /\ pc' = "restore"
    /\ UNCHANGED <<analysis, pureVars, catalogVars, cleanVars, runVars, histVars>>

\* shouldCreateBackupBeforeRestore up to its prompt: load both documents and
\* analyze the conflicts
ShouldCreateBackupBeforeRestore ==
    /\ pc = "decide"
    /\ ~noBackup
    /\ LET currentConfig == Load(files, kubeConfig)
           backupConfig == Load(files, selectedBackup.Path)
           found == analyzeRestoreConflicts(currentConfig.config, backupConfig.config)
       IN  IF currentConfig.err
           THEN /\ decision' = loadFailureDecision("could not load current kubeconfig for analysis")
                /\ pc' = "backup"
                /\ UNCHANGED <<analysis, prompts, exit, failed>>
           ELSE IF backupConfig.err
           THEN /\ decision' = loadFailureDecision("could not load backup kubeconfig for analysis")
                /\ pc' = "backup"
                /\ UNCHANGED <<analysis, prompts, exit, failed>>
           ELSE IF found.panicked
           THEN /\ Finish("panic", "analyze")
                /\ analysis' = found
                /\ UNCHANGED <<decision, prompts>>
           ELSE IF Len(found.conflicts) = 0
           THEN /\ decision' = noConflictDecision
                /\ analysis' = found
                /\ pc' = "backup"
                /\ UNCHANGED <<prompts, exit, failed>>
           ELSE /\ analysis' = found
                /\ prompts' = prompts + 1
                /\ pc' = "ask"
                /\ UNCHANGED <<decision, exit, failed>>
    /\ UNCHANGED <<pureVars, catalogVars, cleanVars, files, noBackup, keepBackup, now, backups, selectedBackup,
                   files0, replies, answer, written, overwrote>>

\* the one line read at the conflict prompt, and the decision it maps to
AskUserAboutConflicts ==
    /\ pc = "ask"
    /\ \E input \in ChoiceInputs :
          /\ answer' = input
          /\ decision' = decisionOfChoice(askUserAboutConflicts(input), analysis.conflicts)
    /\ pc' = "backup"
    /\ UNCHANGED <<analysis, pureVars, catalogVars, cleanVars, files, noBackup, keepBackup, now, backups,
                   selectedBackup, exit, files0, replies, prompts, written, overwrote, failed>>

\* the decision asks for a backup and carries conflicts
SelectiveBackup ==
    /\ pc = "backup"
    /\ decision.shouldBackup /\ Len(decision.conflicts) > 0
    /\ \E outcome \in WriteOutcomes :
          LET r == createSelectiveBackup(files, kubeConfig, decision.conflicts, now, outcome)
          IN  /\ files' = r.fs
              /\ IF r.err
                 THEN Finish("error", "backup") /\ UNCHANGED written
                 ELSE /\ written' = written \cup {r.path}
                      /\ pc' = "restore"
                      /\ UNCHANGED <<exit, failed>>
    /\ UNCHANGED <<analysis, pureVars, catalogVars, cleanVars, noBackup, keepBackup, now, backups, selectedBackup,
                   decision, files0, replies, answer, prompts, overwrote>>

\* the decision asks for a backup and carries no conflicts
FullBackup ==
    /\ pc = "backup"
    /\ decision.shouldBackup /\ Len(decision.conflicts) = 0
    /\ \E outcome \in WriteOutcomes :
          LET r == CreateBackup(files, kubeConfig, now, outcome)
          IN  /\ files' = r.fs
              /\ IF r.err
                 THEN Finish("error", "backup") /\ UNCHANGED written
                 ELSE /\ written' = written \cup {r.path}
                      /\ pc' = "restore"
                      /\ UNCHANGED <<exit, failed>>
    /\ UNCHANGED <<analysis, pureVars, catalogVars, cleanVars, noBackup, keepBackup, now, backups, selectedBackup,
                   decision, files0, replies, answer, prompts, overwrote>>

\* the decision asks for no backup
SkipBackup ==
    /\ pc = "backup"
    /\ ~decision.shouldBackup
    /\ pc' = "restore"
    /\ UNCHANGED <<analysis, pureVars, catalogVars, cleanVars, runVars, histVars>>

\* the overwrite of the live kubeconfig
RestoreFromBackup ==
    /\ pc = "restore"
    /\ \E readable \in BOOLEAN, outcome \in WriteOutcomes :
          LET r == restoreFromBackup(files, selectedBackup.Path, kubeConfig, readable, outcome)
          IN  /\ files' = r.fs
              /\ overwrote' = r.wrote
              /\ IF r.err
                 THEN Finish("error", "restore")
                 ELSE pc' = "cleanup" /\ UNCHANGED <<exit, failed>>
    /\ UNCHANGED <<analysis, pureVars, catalogVars, cleanVars, noBackup, keepBackup, now, backups, selectedBackup,
                   decision, files0, replies, answer, prompts, written>>

\* CleanupBackupFile removing the consumed backup whatever --keep-backup says
CleanupBackupFileIgnoringKeep ==
    /\ pc = "cleanup"
    /\ \E removed \in BOOLEAN :
          files' = IF removed /\ Exists(files, selectedBackup.Path)
                   THEN Remove(files, selectedBackup.Path) ELSE files
    /\ Finish("ok", "none")
    /\ UNCHANGED <<analysis, pureVars, catalogVars, cleanVars, noBackup, keepBackup, now, backups, selectedBackup,
                   decision, files0, replies, answer, prompts, written, overwrote>>

\* the consumed backup is removed unless --keep-backup; a failing removal is
\* a warning
CleanupBackupFile ==
    /\ pc = "cleanup"
    /\ IF keepBackup
       THEN UNCHANGED files
       ELSE \E removed \in BOOLEAN :
               files' = IF removed /\ Exists(files, selectedBackup.Path)
                        THEN Remove(files, selectedBackup.Path) ELSE files
    /\ Finish("ok", "none")
    /\ UNCHANGED <<analysis, pureVars, catalogVars, cleanVars, noBackup, keepBackup, now, backups, selectedBackup,
                   decision, files0, replies, answer, prompts, written, overwrote>>

Next ==
    \/ FindBackups
    \/ GetUserSelection
    \/ ConfirmRestore
    \/ SkipBackupByFlag
    \/ ShouldCreateBackupBeforeRestore
    \/ AskUserAboutConflicts
    \/ SelectiveBackup
    \/ FullBackup
    \/ SkipBackup
    \/ RestoreFromBackup
    \/ CleanupBackupFile

Spec == Init /\ [][Next]_vars

(***************************************************************************)
(* Properties of the restore run                                           *)
(***************************************************************************)
\* the entities a file holds
EntitiesIn(fs, path) ==
    IF ~Exists(fs, path) \/ fs[path].kind # "yaml" THEN {}
    ELSE LET doc == fs[path].doc
             of(kind, list) == {<<kind, list[i].Name, list[i].Body>> : i \in DOMAIN list}
         IN  of("context", doc.Contexts) \cup of("cluster", doc.Clusters) \cup of("user", doc.Users)

Unloadable(fs, path) == ~Exists(fs, path) \/ fs[path] = Garbage

\* the live kubeconfig is as it was when the run began
LiveUntouched ==
    /\ Exists(files, kubeConfig) <=> Exists(files0, kubeConfig)
    /\ Exists(files, kubeConfig) => files[kubeConfig] = files0[kubeConfig]

wordsNone == {<<"n">>, <<"n", "o">>}
wordsSelective == {<<"s">>, <<"s", "e", "l", "e", "c", "t", "i", "v", "e">>}
wordsFull == {<<"f">>, <<"f", "u", "l", "l">>}

Asked == answer # Nil
\* the conflict prompt was answered with c or cancel, with something
\* unrecognized, or the read failed
ResolvedToCancel == Asked /\ ~Says(answer, wordsNone \cup wordsSelective \cup wordsFull)

\* C1: after a restore run that overwrote the live kubeconfig, unless
\* --no-backup was given or the operator chose to proceed without backup,
\* every entity the live kubeconfig held before the run is still in the live
\* kubeconfig or in a backup written during the run.
C1_PreRestoreContentRecoverable ==
    (pc = "done" /\ exit = "ok" /\ overwrote /\ ~noBackup /\ ~Says(answer, wordsNone)) =>
        \A e \in EntitiesIn(files0, kubeConfig) :
            \/ e \in EntitiesIn(files, kubeConfig)
            \/ \E p \in written : e \in EntitiesIn(files, p)

\* C2: once the conflict choice resolves to cancel, the restore is aborted
\* before any overwrite: the live kubeconfig keeps its bytes, no backup is
\* written and the selected backup is not deleted.
C2_CancelAbortsBeforeOverwrite ==
    ResolvedToCancel => (files = files0 /\ ~overwrote /\ written = {})

\* the run has come to a decision about the backup
Decided == decision # NoDecision
\* the backup step is behind: the run is at the overwrite or past it
PastBackup ==
    pc \in {"restore", "cleanup"} \/ (pc = "done" /\ failed \in {"none", "restore"} /\ Decided)

\* what the analysis of the two documents as they were at the start gives
AnalysisAtStart ==
    analyzeRestoreConflicts(Load(files0, kubeConfig).config,
                            Load(files0, selectedBackup.Path).config)
BothLoadAtStart ==
    /\ selectedBackup # Nil
    /\ ~Unloadable(files0, kubeConfig)
    /\ ~Unloadable(files0, selectedBackup.Path)

\* C3: without --no-backup, when the live kubeconfig or the selected backup
\* does not load, no conflict prompt is shown, the decision is "back up" with
\* no conflict list, the live kubeconfig is overwritten only after a full
\* byte copy of it was written, and a failing backup ends the run with an
\* error and the live kubeconfig untouched.
C3_LoadFailureForcesFullBackup ==
    (~noBackup /\ Decided /\ selectedBackup # Nil
       /\ (Unloadable(files0, kubeConfig) \/ Unloadable(files0, selectedBackup.Path))) =>
        /\ prompts = 0 /\ ~Asked
        /\ decision.shouldBackup /\ decision.conflicts = <<>>
        /\ pc = "restore" =>
              /\ written = {backupPathOf(now)}
              /\ files[backupPathOf(now)] = files0[kubeConfig]
        /\ (PastBackup \/ overwrote) => written = {backupPathOf(now)}
        /\ ~overwrote => LiveUntouched
        /\ failed = "backup" => (exit = "error" /\ ~overwrote /\ written = {})
        /\ written = {} => pc \in {"backup", "done"}

\* the selected backup did not parse, the live kubeconfig was copied to a
\* full backup and then replaced
C3_Witness ==
    /\ ~noBackup /\ pc = "done" /\ exit = "ok" /\ overwrote
    /\ selectedBackup # Nil
    /\ files0[selectedBackup.Path] = Garbage
    /\ files0[kubeConfig] = Yaml(docTwo)
    /\ selectedBackup.Path # backupPathOf(now)
    /\ files[backupPathOf(now)] = Yaml(docTwo)
    /\ files[kubeConfig] = Garbage

\* C7: when both documents load and the analysis yields no conflict, the
\* decision is "skip backup" (safe merge), no conflict prompt is shown and no
\* line is read for it, no backup is written and the run goes on to the
\* overwrite.
C7_NoConflictSkipsBackupWithoutPrompt ==
    (~noBackup /\ Decided /\ BothLoadAtStart
       /\ ~AnalysisAtStart.panicked /\ AnalysisAtStart.conflicts = <<>>) =>
        /\ decision.shouldBackup = FALSE
        /\ decision.reason = "no conflicts detected - backup contexts can be safely merged"
        /\ prompts = 0 /\ ~Asked
        /\ written = {}
        /\ ~overwrote => files = files0
        /\ pc \in {"backup", "restore", "cleanup", "done"}
        /\ pc = "done" => failed \in {"none", "restore"}
        /\ (pc = "done" /\ exit = "ok") => overwrote

\* the live kubeconfig held more than the backup, nothing differed, and the
\* run replaced it without a backup
C7_Witness ==
    /\ ~noBackup /\ pc = "done" /\ exit = "ok" /\ overwrote
    /\ BothLoadAtStart
    /\ files0[kubeConfig] = Yaml(docTwo)
    /\ files[kubeConfig] = Yaml(docOne)
    /\ written = {} /\ prompts = 0

\* the backup files that were not there when the run began
NewPaths == (DOMAIN files \ DOMAIN files0) \ {kubeConfig}

\* C8: when conflicts exist the operator is asked exactly once and the
\* trimmed, case-insensitive answer decides the backup: n/no none, s/selective
\* exactly one selective backup and no full one, f/full exactly one full
\* backup and no selective one.  With --no-backup there is no analysis, no
\* prompt and no backup.
C8_AnswerDecidesTheBackup ==
    /\ (~noBackup /\ BothLoadAtStart /\ (pc = "ask" \/ Decided)
          /\ ~AnalysisAtStart.panicked /\ AnalysisAtStart.conflicts # <<>>) =>
          /\ prompts = 1
          /\ Asked <=> pc # "ask"
          /\ Says(answer, wordsNone) => (written = {} /\ NewPaths = {})
          /\ Says(answer, wordsSelective) =>
                /\ written \subseteq {selectivePathOf(now)}
                /\ PastBackup => written = {selectivePathOf(now)}
                /\ NewPaths \subseteq {selectivePathOf(now)}
                /\ \A t \in Times : Exists(files0, backupPathOf(t)) /\ ~overwrote
                                        /\ Exists(files, backupPathOf(t))
                                     => files[backupPathOf(t)] = files0[backupPathOf(t)]
          /\ Says(answer, wordsFull) =>
                /\ written \subseteq {backupPathOf(now)}
                /\ PastBackup => written = {backupPathOf(now)}
                /\ NewPaths \subseteq {backupPathOf(now)}
    /\ noBackup =>
          /\ prompts = 0 /\ ~Asked /\ analysis = NoAnalysis /\ ~Decided
          /\ written = {} /\ NewPaths = {}

\* a token conflict answered with " S ": one selective backup holding the
\* live user, no full backup
C8_Witness ==
    /\ pc = "done" /\ exit = "ok" /\ ~noBackup
    /\ answer = Line(<<" ", "S", " ">>)
    /\ prompts = 1
    /\ written = {selectivePathOf(now)}
    /\ NewPaths = {selectivePathOf(now)}
    /\ files[selectivePathOf(now)] =
          Yaml(Document(<<>>, <<>>, <<Named(An, baseUser)>>, <<>>))
    /\ files[kubeConfig] = Yaml(docOtherToken)

\* the run ended at the selection prompt or at the confirmation prompt
Declined == replies.selection = "zero" \/ replies.confirmation = "other"

\* C11: no file is created, overwritten or deleted before the confirmation
\* prompt was answered with y or yes; a run that ends with 0 at the selection
\* prompt or with another answer at the confirmation prompt leaves every file
\* as it was and ends successfully.
C11_NothingChangesBeforeConfirmation ==
    /\ replies.confirmation # "yes" => files = files0
    /\ Declined => pc = "done" /\ exit = "ok" /\ files = files0

C11_Witness ==
    /\ pc = "done" /\ exit = "ok"
    /\ selectedBackup # Nil
    /\ replies.confirmation = "other"
    /\ Exists(files, kubeConfig) /\ files = files0

\* the input was closed, or the read failed, at one of the three prompts
InputClosed ==
    \/ replies.selection = "closed"
    \/ replies.confirmation = "closed"
    \/ (Asked /\ answer.err)

\* C12: a closed or failing standard input at the selection, confirmation or
\* conflict prompt is an implicit decline: the run ends without an error and
\* without overwriting the live kubeconfig.
C12_ClosedInputDeclines ==
    (InputClosed /\ pc = "done") => exit = "ok" /\ ~overwrote /\ LiveUntouched

\* the run went through to its end and restored
Restored == pc = "done" /\ exit = "ok" /\ overwrote

\* C13: after a successful restore run the live kubeconfig holds exactly the
\* bytes that the selected backup held when the backups were listed.
C13_LiveHoldsSelectedBackupBytes ==
    Restored =>
        /\ Exists(files, kubeConfig)
        /\ files[kubeConfig] = files0[selectedBackup.Path]

Selected == selectedBackup # Nil
SelectedDeleted == Selected /\ ~Exists(files, selectedBackup.Path)

\* C14: the selected backup is deleted only after the live kubeconfig was
\* overwritten successfully and only without --keep-backup; it is not deleted
\* when the backup before the overwrite or the overwrite fails; a failing
\* deletion leaves the run successful and the live kubeconfig restored.
C14_SelectedBackupDeletedOnlyAfterRestore ==
    /\ SelectedDeleted => Restored /\ ~keepBackup
    /\ (Selected /\ keepBackup) => Exists(files, selectedBackup.Path)
    /\ failed \in {"backup", "restore"} => Exists(files, selectedBackup.Path)
    /\ (pc = "done" /\ failed = "none" /\ overwrote /\ ~keepBackup /\ ~SelectedDeleted) =>
            /\ exit = "ok"
            /\ files[kubeConfig] = files[selectedBackup.Path]

\* the deletion failed after a restore
C14_Witness ==
    /\ Restored /\ ~keepBackup /\ ~SelectedDeleted
    /\ files[kubeConfig] = files0[selectedBackup.Path]
    /\ Exists(files0, kubeConfig) /\ files0[kubeConfig] # files[kubeConfig]

(***************************************************************************)
(* The backup catalog: findBackups on the listing of a directory           *)
(***************************************************************************)
\* most entries of a listed directory
MaxDirEntries == 3

HasPrefix(s, prefix) == Len(s) >= Len(prefix) /\ SubSeq(s, 1, Len(prefix)) = prefix
TrimPrefix(s, prefix) ==
    IF HasPrefix(s, prefix) THEN SubSeq(s, Len(prefix) + 1, Len(s)) ELSE s

\* time: getnum parses one or two digits, exactly two when fixed
getnum(s, fixed) ==
    IF Len(s) < 1 \/ ~isDigit(s[1]) THEN [err |-> TRUE, value |-> 0, rest |-> s]
    ELSE IF Len(s) < 2 \/ ~isDigit(s[2])
         THEN IF fixed THEN [err |-> TRUE, value |-> 0, rest |-> s]
              ELSE [err |-> FALSE, value |-> digitValue(s[1]), rest |-> Tail(s)]
    ELSE [err |-> FALSE, value |-> 10 * digitValue(s[1]) + digitValue(s[2]),
          rest |-> SubSeq(s, 3, Len(s))]

isLeap(year) == year % 4 = 0 /\ (year % 100 # 0 \/ year % 400 = 0)
daysIn(month, year) ==
    IF month = 2 THEN (IF isLeap(year) THEN 29 ELSE 28)
    ELSE IF month \in {4, 6, 9, 11} THEN 30 ELSE 31

commaOrPeriod(ch) == ch \in {".", ","}

RECURSIVE pow10(_)
pow10(n) == IF n = 0 THEN 1 ELSE 10 * pow10(n - 1)

\* time: the digits that follow the period or comma, as nanoseconds
parseNanoseconds(fraction) ==
    LET kept == IF Len(fraction) > 9 THEN SubSeq(fraction, 1, 9) ELSE fraction
    IN  decimal(kept) * pow10(9 - Len(kept))

\* the length of the longest prefix of s made of digits
RECURSIVE leadingDigits(_)
leadingDigits(s) ==
    IF s = <<>> \/ ~isDigit(Head(s)) THEN 0 ELSE 1 + leadingDigits(Tail(s))

\* time.Parse("20060102-150405", value): the year in four digits, month and
\* day in two, a dash, the hour in one or two digits, minute and second in
\* two; a fraction of a second may follow the seconds although the layout has
\* none; nothing else may follow
Parse(value) ==
    LET fail == [err |-> TRUE, time |-> <<>>]
    IN  IF Len(value) < 4 \/ \E k \in 1..4 : ~isDigit(value[k]) THEN fail
        ELSE
        LET year == decimal(SubSeq(value, 1, 4))
            month == getnum(SubSeq(value, 5, Len(value)), TRUE)
        IN  IF month.err \/ month.value < 1 \/ month.value > 12 THEN fail
            ELSE
            LET day == getnum(month.rest, TRUE)
            IN  IF day.err \/ day.rest = <<>> \/ Head(day.rest) # "-" THEN fail
                ELSE
                LET hour == getnum(Tail(day.rest), FALSE)
                IN  IF hour.err \/ hour.value >= 24 THEN fail
                    ELSE
                    LET min == getnum(hour.rest, TRUE)
                    IN  IF min.err \/ min.value >= 60 THEN fail
                        ELSE
                        LET sec == getnum(min.rest, TRUE)
                        IN  IF sec.err \/ sec.value >= 60 THEN fail
                            ELSE
                            LET r == sec.rest
                                fractional == Len(r) >= 2 /\ commaOrPeriod(r[1]) /\ isDigit(r[2])
                                n == IF fractional THEN leadingDigits(Tail(r)) ELSE 0
                                nsec == IF fractional
                                        THEN parseNanoseconds(SubSeq(r, 2, n + 1)) ELSE 0
                                left == IF fractional THEN SubSeq(r, n + 2, Len(r)) ELSE r
                            IN  IF left # <<>> THEN fail
                                ELSE IF day.value < 1 \/ day.value > daysIn(month.value, year)
                                     THEN fail
                                ELSE [err |-> FALSE,
                                      time |-> <<year, month.value, day.value, hour.value,
                                                 min.value, sec.value, nsec>>]

\* Time.After
RECURSIVE AfterFrom(_, _, _)
AfterFrom(t, u, i) ==
    IF i > Len(t) THEN FALSE
    ELSE IF t[i] # u[i] THEN t[i] > u[i]
    ELSE AfterFrom(t, u, i + 1)
After(t, u) == AfterFrom(t, u, 1)

\* sort.Slice with less = After: the newest first, backups of the same time
\* in any order
RECURSIVE sortSlice(_)
sortSlice(found) ==
    IF found = {} THEN {<<>>}
    ELSE UNION {{<<b>> \o rest : rest \in sortSlice(found \ {b})} :
                   b \in {x \in found : \A y \in found : ~After(y.Time, x.Time)}}

\* the base name and the directory of the kubeconfig path
baseName == <<"c">>
dir == <<"/">>
backupInfix == <<".", "b", "a", "c", "k", "u", "p", ".">>

\* findBackups: the orders in which the backups of a listing may be returned
findBackupsIn(listing) ==
    LET prefix == baseName \o backupInfix
        candidates == {e \in listing : ~(e.IsDir \/ ~HasPrefix(e.Name, prefix))}
        found == {[Name |-> e.Name, Path |-> dir \o e.Name,
                   Time |-> Parse(TrimPrefix(e.Name, prefix)).time] :
                     e \in {c \in candidates : ~Parse(TrimPrefix(c.Name, prefix)).err}}
    IN  sortSlice(found)

\* the entries a directory may hold
EntryPool ==
    {[Name |-> <<"c", ".", "b", "a", "c", "k", "u", "p", ".", "2", "0", "2", "4", "0", "1", "0", "1", "-", "1", "2", "0", "0", "0", "0">>, IsDir |-> FALSE],
     [Name |-> <<"c", ".", "b", "a", "c", "k", "u", "p", ".", "2", "0", "2", "4", "0", "1", "0", "1", "-", "1", "2", "0", "0", "0", "1">>, IsDir |-> FALSE],
     [Name |-> <<"c", ".", "b", "a", "c", "k", "u", "p", ".", "2", "0", "2", "3", "1", "2", "3", "1", "-", "2", "3", "5", "9", "5", "9">>, IsDir |-> FALSE],
     [Name |-> <<"c", ".", "b", "a", "c", "k", "u", "p", ".", "2", "0", "2", "4", "0", "2", "2", "9", "-", "0", "0", "0", "0", "0", "0">>, IsDir |-> FALSE],
     [Name |-> <<"c", ".", "b", "a", "c", "k", "u", "p", ".", "2", "0", "2", "3", "0", "2", "2", "9", "-", "0", "0", "0", "0", "0", "0">>, IsDir |-> FALSE],
     [Name |-> <<"c", ".", "b", "a", "c", "k", "u", "p", ".", "2", "0", "2", "4", "1", "3", "0", "1", "-", "0", "0", "0", "0", "0", "0">>, IsDir |-> FALSE],
     [Name |-> <<"c", ".", "b", "a", "c", "k", "u", "p", ".", "2", "0", "2", "4", "0", "1", "0", "1", "-", "2", "4", "0", "0", "0", "0">>, IsDir |-> FALSE],
     [Name |-> <<"c", ".", "b", "a", "c", "k", "u", "p", ".", "2", "0", "2", "4", "0", "1", "0", "1", "-", "1", "2", "0", "0", "0", "0", ".", "5">>, IsDir |-> FALSE],
     [Name |-> <<"c", ".", "b", "a", "c", "k", "u", "p", ".", "2", "0", "2", "4", "0", "1", "0", "1", "-", "1", "2", "0", "0", "0", "0", "x">>, IsDir |-> FALSE],
     [Name |-> <<"c", ".", "b", "a", "c", "k", "u", "p", ".", "2", "0", "2", "4", "-", "0", "1", "-", "0", "1">>, IsDir |-> FALSE],
     [Name |-> <<"c", ".", "b", "a", "c", "k", "u", "p", ".">>, IsDir |-> FALSE],
     [Name |-> <<"c", ".", "s", "e", "l", "e", "c", "t", "i", "v", "e", "-", "b", "a", "c", "k", "u", "p", ".", "2", "0", "2", "4", "0", "1", "0", "1", "-", "1", "2", "0", "0", "0", "1">>, IsDir |-> FALSE],
     [Name |-> <<"d", ".", "b", "a", "c", "k", "u", "p", ".", "2", "0", "2", "4", "0", "1", "0", "1", "-", "1", "2", "0", "0", "0", "1">>, IsDir |-> FALSE],
     [Name |-> <<"c">>, IsDir |-> FALSE],
     [Name |-> <<"c", ".", "b", "a", "c", "k", "u", "p", ".", "2", "0", "2", "4", "0", "1", "0", "1", "-", "1", "2", "0", "0", "0", "1">>, IsDir |-> TRUE],
     [Name |-> <<"c", ".", "b", "a", "c", "k", "u", "p", ".", "2", "0", "2", "4", "0", "1", "0", "1", "-", "1", "2", "0", "0">>, IsDir |-> FALSE]}

Listings ==
    {l \in SUBSET EntryPool :
        /\ Cardinality(l) <= MaxDirEntries
        /\ \A e, f \in l : e.Name = f.Name => e = f}

InitCatalog ==
    /\ pc = "input"
    /\ dirEntries \in Listings
    /\ call = Nil /\ ret = Nil /\ stdin = <<>> /\ reader = <<>>
    /\ analysis = NoAnalysis
    /\ current = Nil /\ backup = Nil /\ items = <<>> /\ selective = Nil
    /\ RunIdle
    /\ dryRun = FALSE /\ authCheck = FALSE /\ interactive = FALSE
    /\ cfg = Nil /\ kConfig = Nil /\ kConfig0 = Nil
    /\ contextsToRemove = <<>>
    /\ probe = Nil

ListBackups ==
    /\ pc = "input"
    /\ backups' \in findBackupsIn(dirEntries)
    /\ pc' = "listed"
    /\ UNCHANGED <<analysis, pureVars, files, noBackup, keepBackup, now, selectedBackup,
                   decision, exit, histVars, catalogVars, cleanVars>>

NextCatalog == ListBackups

SpecCatalog == InitCatalog /\ [][NextCatalog]_vars

\* a timestamp in the form YYYYMMDD-HHMMSS, of a time that exists
WellFormedStamp(T) ==
    /\ Len(T) = 15
    /\ T[9] = "-"
    /\ \A k \in (1..15) \ {9} : isDigit(T[k])
    /\ LET two(i) == 10 * digitValue(T[i]) + digitValue(T[i + 1])
           year == 1000 * digitValue(T[1]) + 100 * digitValue(T[2]) + two(3)
       IN  /\ two(5) \in 1..12
           /\ two(7) \in 1..31
           /\ two(5) \in {4, 6, 9, 11} => two(7) <= 30
           /\ two(5) = 2 => two(7) <= (IF year % 4 = 0 /\ (year % 100 # 0 \/ year % 400 = 0)
                                       THEN 29 ELSE 28)
           /\ two(10) \in 0..23 /\ two(12) \in 0..59 /\ two(14) \in 0..59

\* the entry is a file named <basename>.backup.<T>
IsFullBackup(e) ==
    /\ ~e.IsDir
    /\ Len(e.Name) = Len(baseName) + Len(backupInfix) + 15
    /\ SubSeq(e.Name, 1, Len(baseName)) = baseName
    /\ SubSeq(e.Name, Len(baseName) + 1, Len(baseName) + Len(backupInfix)) = backupInfix
    /\ WellFormedStamp(SubSeq(e.Name, Len(e.Name) - 14, Len(e.Name)))

\* timestamps of the form YYYYMMDD-HHMMSS compare as their characters do
RECURSIVE NotOlder(_, _)
NotOlder(T, U) ==
    IF T = <<>> THEN TRUE
    ELSE IF Head(T) # Head(U)
         THEN Head(T) = "-" \/ (Head(U) # "-" /\ digitValue(Head(T)) > digitValue(Head(U)))
    ELSE NotOlder(Tail(T), Tail(U))

StampOf(name) == SubSeq(name, Len(name) - 14, Len(name))

\* C15: findBackups returns exactly the non-directory entries named
\* <basename>.backup.<T> with T a timestamp YYYYMMDD-HHMMSS, newest first;
\* every other entry is skipped.
C15_CatalogListsExactlyTheFullBackups ==
    pc = "listed" =>
        /\ {backups[i].Name : i \in DOMAIN backups} = {e.Name : e \in {f \in dirEntries : IsFullBackup(f)}}
        /\ Len(backups) = Cardinality({f \in dirEntries : IsFullBackup(f)})
        /\ \A i, j \in DOMAIN backups :
              i < j => NotOlder(StampOf(backups[i].Name), StampOf(backups[j].Name))

\* the catalog does what C15 says for listings without a fraction of a second
NoFractions == \A e \in dirEntries : \A k \in DOMAIN e.Name : k > 10 => ~commaOrPeriod(e.Name[k])
CatalogExactWithoutFractions == NoFractions => C15_CatalogListsExactlyTheFullBackups

(***************************************************************************)
(* kubeconfig.RemoveContexts                                               *)
(***************************************************************************)
\* the clusters (users) that the contexts of a list with a body refer to
usedBy(contexts, field) ==
    {contexts[i].Body[field] : i \in {j \in DOMAIN contexts : HasBody(contexts[j])}}

\* RemoveContexts keeping what any context refers to, removed ones included
RemoveContextsKeepingAllReferenced(config, names) ==
    LET toRemoveMap == {names[i] : i \in DOMAIN names}
        remains(e) == e.Name \notin toRemoveMap
        remainingContexts == SelectSeq(config.Contexts, remains)
        usedCluster(e) == e.Name \in usedBy(config.Contexts, "Cluster")
        usedUser(e) == e.Name \in usedBy(config.Contexts, "User")
        cleared == IF \E i \in DOMAIN config.Contexts :
                        /\ ~remains(config.Contexts[i])
                        /\ config.Contexts[i].Name = config.CurrentContext
                   THEN <<>> ELSE config.CurrentContext
    IN  buildInternalMaps(
            Document(remainingContexts,
                     SelectSeq(config.Clusters, usedCluster),
                     SelectSeq(config.Users, usedUser),
                     IF cleared = <<>> /\ Len(remainingContexts) > 0
                     THEN remainingContexts[1].Name ELSE cleared))

\* RemoveContexts: the contexts not named stay; the clusters and users that a
\* remaining context refers to stay; the current context is cleared when it
\* was removed, and an empty current context becomes the first remaining
\* context; the lookup maps are rebuilt
RemoveContexts(config, names) ==
    LET toRemoveMap == {names[i] : i \in DOMAIN names}
        remains(e) == e.Name \notin toRemoveMap
        remainingContexts == SelectSeq(config.Contexts, remains)
        usedCluster(e) == e.Name \in usedBy(remainingContexts, "Cluster")
        usedUser(e) == e.Name \in usedBy(remainingContexts, "User")
        cleared == IF \E i \in DOMAIN config.Contexts :
                        /\ ~remains(config.Contexts[i])
                        /\ config.Contexts[i].Name = config.CurrentContext
                   THEN <<>> ELSE config.CurrentContext
    IN  buildInternalMaps(
            Document(remainingContexts,
                     SelectSeq(config.Clusters, usedCluster),
                     SelectSeq(config.Users, usedUser),
                     IF cleared = <<>> /\ Len(remainingContexts) > 0
                     THEN remainingContexts[1].Name ELSE cleared))

\* the documents handed to RemoveContexts on its own: lists with repeated
\* names, contexts without a body, clusters and users nobody refers to
RemovalDocuments ==
    {Document(c, k, u, cur) :
        c \in SeqUpTo({Named(An, baseContext),
                       Named(Bn, [Cluster |-> Bn, User |-> Bn, Namespace |-> ""]),
                       Named(Bn, [Cluster |-> An, User |-> Bn, Namespace |-> ""]),
                       Named(An, Nil)},
                      MaxEntries),
        k \in SubLists(<<Named(An, baseCluster), Named(Bn, variantCluster)>>),
        u \in SubLists(<<Named(An, baseUser), Named(Bn, variantUser)>>),
        cur \in {<<>>, An, Bn}}

\* longest list of names handed to RemoveContexts on its own
MaxRemoved == 2

InitRemove ==
    /\ pc = "input"
    /\ \E d \in RemovalDocuments :
          /\ kConfig = buildInternalMaps(d)
          /\ kConfig0 = buildInternalMaps(d)
    /\ contextsToRemove \in SeqUpTo(Names, MaxRemoved)
    /\ analysis = NoAnalysis
    /\ current = Nil /\ backup = Nil /\ items = <<>> /\ selective = Nil
    /\ RunIdle
    /\ dirEntries = {} /\ call = Nil /\ ret = Nil /\ stdin = <<>> /\ reader = <<>>
    /\ dryRun = FALSE /\ authCheck = FALSE /\ interactive = FALSE
    /\ cfg = Nil
    /\ probe = Nil

ApplyRemoveContexts ==
    /\ pc = "input"
    /\ kConfig' = RemoveContexts(kConfig, contextsToRemove)
    /\ pc' = "removed"
    /\ UNCHANGED <<analysis, pureVars, runVars, histVars, catalogVars, dryRun, authCheck,
                   interactive, cfg, contextsToRemove, probe, kConfig0>>

\* RemoveContexts called once more with the same names
ApplyRemoveContextsAgain ==
    /\ pc = "removed"
    /\ kConfig' = RemoveContexts(kConfig, contextsToRemove)
    /\ pc' = "removedAgain"
    /\ UNCHANGED <<analysis, pureVars, runVars, histVars, catalogVars, dryRun, authCheck,
                   interactive, cfg, contextsToRemove, probe, kConfig0>>

NextRemove ==
    \/ ApplyRemoveContexts
    \/ ApplyRemoveContextsAgain

SpecRemove == InitRemove /\ [][NextRemove]_vars

\* the entries of a list that satisfy Keep, in their order
RECURSIVE Kept(_, _)
Kept(list, keep) ==
    IF list = <<>> THEN <<>>
    ELSE IF Head(list).Name \in keep THEN <<Head(list)>> \o Kept(Tail(list), keep)
    ELSE Kept(Tail(list), keep)

ReferencedBy(doc, field) ==
    {doc.Contexts[i].Body[field] : i \in {j \in DOMAIN doc.Contexts : doc.Contexts[j].Body # Nil}}

\* C20: after RemoveContexts the contexts are the previous contexts whose
\* name was not given, in their order; a cluster (user) remains iff it was
\* there before and a remaining context refers to it.
C20_RemoveContextsKeepsReferencedOnly ==
    pc = "removed" =>
        /\ kConfig.Contexts =
              Kept(kConfig0.Contexts, NamesOf(kConfig0.Contexts) \ Range(contextsToRemove))
        /\ kConfig.Clusters = Kept(kConfig0.Clusters, ReferencedBy(kConfig, "Cluster"))
        /\ kConfig.Users = Kept(kConfig0.Users, ReferencedBy(kConfig, "User"))

\* a context is removed, its cluster goes with it, and a cluster that no
\* context referred to before the call goes too
C20_Witness ==
    /\ pc = "removed"
    /\ Len(kConfig0.Contexts) = 2 /\ Len(kConfig.Contexts) = 1
    /\ kConfig.Contexts[1] = Named(An, baseContext)
    /\ kConfig0.Contexts[1] = Named(Bn, [Cluster |-> Bn, User |-> Bn, Namespace |-> ""])
    /\ Len(kConfig0.Clusters) = 2 /\ Len(kConfig.Clusters) = 1
    /\ Len(kConfig0.Users) = 2 /\ kConfig.Users = <<Named(An, baseUser)>>

\* a listed context with the name of the current context was removed
CurrentRemoved ==
    \E i \in DOMAIN kConfig0.Contexts :
        /\ kConfig0.Contexts[i].Name = kConfig0.CurrentContext
        /\ kConfig0.Contexts[i].Name \in Range(contextsToRemove)

\* C21: RemoveContexts changes the current context only when the current
\* context was removed: it then becomes the first remaining context, or
\* empty when none remains; a kept or an unset current context stays as it
\* was.
C21_CurrentContextChangesOnlyWhenRemoved ==
    pc = "removed" =>
        IF CurrentRemoved
        THEN kConfig.CurrentContext =
                IF kConfig.Contexts = <<>> THEN <<>> ELSE kConfig.Contexts[1].Name
        ELSE kConfig.CurrentContext = kConfig0.CurrentContext

\* the claim of C21 for documents with a current context
CurrentContextKeptWhenSet ==
    kConfig0.CurrentContext # <<>> => C21_CurrentContextChangesOnlyWhenRemoved

\* C22: RemoveContexts is idempotent: a second call with the same names
\* leaves contexts, clusters, users and current context as the first call
\* left them.
C22_RemoveContextsIdempotent ==
    [][pc = "removed" =>
          /\ kConfig'.Contexts = kConfig.Contexts
          /\ kConfig'.Clusters = kConfig.Clusters
          /\ kConfig'.Users = kConfig.Users
          /\ kConfig'.CurrentContext = kConfig.CurrentContext]_vars

\* the second call was made on a document from which the first call removed
\* a context, a cluster and the current context
C22_Witness ==
    /\ pc = "removedAgain"
    /\ Len(kConfig.Contexts) = 1 /\ Len(kConfig0.Contexts) = 2
    /\ Len(kConfig.Clusters) < Len(kConfig0.Clusters)
    /\ kConfig.CurrentContext # kConfig0.CurrentContext

\* a lookup map holds exactly the names of its list
IndexAgrees(config) ==
    /\ DOMAIN config.contextMap = NamesOf(config.Contexts)
    /\ DOMAIN config.clusterMap = NamesOf(config.Clusters)
    /\ DOMAIN config.userMap = NamesOf(config.Users)

\* C23: after Load and after every RemoveContexts each lookup map agrees
\* with its list, so GetContextNames returns exactly the names of the listed
\* contexts.
C23_IndexAgreesWithLists == IndexAgrees(kConfig0) /\ IndexAgrees(kConfig)

\* the maps agree with the lists when every listed entry has a body
IndexAgreesWhenBodiesPresent ==
    (\A i \in DOMAIN kConfig0.Contexts : HasBody(kConfig0.Contexts[i])) => C23_IndexAgreesWithLists

(***************************************************************************)
(* The whitelist (internal/config) and the auth check                      *)
(***************************************************************************)
\* regexp.QuoteMeta: a backslash before every character special to regexp
regexpSpecial == {"\\", ".", "+", "*", "?", "(", ")", "|", "[", "]", "{", "}", "^", "$"}
RECURSIVE QuoteMeta(_)
QuoteMeta(s) ==
    IF s = <<>> THEN <<>>
    ELSE (IF Head(s) \in regexpSpecial THEN <<"\\", Head(s)>> ELSE <<Head(s)>>)
            \o QuoteMeta(Tail(s))

\* strings.ReplaceAll: the occurrences of old from left to right, without
\* overlap
RECURSIVE ReplaceAll(_, _, _)
ReplaceAll(s, old, new) ==
    IF s = <<>> THEN <<>>
    ELSE IF HasPrefix(s, old) THEN new \o ReplaceAll(SubSeq(s, Len(old) + 1, Len(s)), old, new)
    ELSE <<Head(s)>> \o ReplaceAll(Tail(s), old, new)

\* the source text of the regular expression of a pattern
patternSource(pattern) ==
    <<"^">> \o ReplaceAll(ReplaceAll(QuoteMeta(pattern), <<"\\", "*">>, <<".", "*">>),
                          <<"\\", "?">>, <<".">>)
            \o <<"$">>

\* regexp.Compile on the text between ^ and $: an escaped character stands
\* for itself, a period for any character but a newline, and a star repeats
\* what precedes it
RECURSIVE regexpItems(_)
regexpItems(src) ==
    IF src = <<>> THEN <<>>
    ELSE LET escaped == Head(src) = "\\" /\ Len(src) >= 2
             width == IF escaped THEN 2 ELSE 1
             starred == Len(src) > width /\ src[width + 1] = "*"
             item == [any |-> ~escaped /\ Head(src) = ".",
                      ch |-> IF escaped THEN src[2] ELSE Head(src),
                      star |-> starred]
         IN  <<item>> \o regexpItems(SubSeq(src, width + (IF starred THEN 2 ELSE 1), Len(src)))

compilePattern(pattern) ==
    LET src == patternSource(pattern)
    IN  regexpItems(SubSeq(src, 2, Len(src) - 1))

\* Regexp.MatchString of an expression anchored at both ends
RECURSIVE MatchString(_, _)
MatchString(regex, s) ==
    IF regex = <<>> THEN s = <<>>
    ELSE LET item == Head(regex)
             one == s # <<>> /\ (IF item.any THEN Head(s) # "\n" ELSE Head(s) = item.ch)
         IN  IF item.star
             THEN MatchString(Tail(regex), s) \/ (one /\ MatchString(regex, Tail(s)))
             ELSE one /\ MatchString(Tail(regex), Tail(s))

\* config.Config with its compiled patterns
compiled(whitelist) ==
    [Whitelist |-> whitelist, patterns |-> [i \in DOMAIN whitelist |-> compilePattern(whitelist[i])]]

MatchesWhitelist(c, contextName) ==
    \E i \in DOMAIN c.patterns : MatchString(c.patterns[i], contextName)

GetUser(c, name) == IF name \in DOMAIN c.userMap THEN c.userMap[name] ELSE Nil
GetCluster(c, name) == IF name \in DOMAIN c.clusterMap THEN c.clusterMap[name] ELSE Nil

\* what the world answers to the probes of one run: the servers that answer
\* with a status below 500, the commands that os.Stat finds, and whether
\* filepath.Abs succeeds
Probes ==
    [reachable : SUBSET {"https://a"}, found : SUBSET {"aws"}, abs : BOOLEAN]

hasValidCredentials(user, p) ==
    IF user.Token # "" THEN TRUE
    ELSE IF user.ClientCertificateData # "" \/ user.ClientCertificate # "" THEN TRUE
    ELSE IF user.Username # "" /\ user.Password # "" THEN TRUE
    ELSE IF user.AuthProvider # Nil THEN user.AuthProvider.Config # ""
    ELSE IF user.Exec # Nil /\ user.Exec.Command # ""
         THEN user.Exec.Command \in p.found \/ p.abs
    ELSE FALSE

isClusterReachable(cluster, user, p) ==
    IF cluster.Server = "" THEN FALSE ELSE cluster.Server \in p.reachable

IsAuthValid(config, contextName, p) ==
    LET ctx == GetContext(config, contextName)
    IN  IF ctx = Nil THEN FALSE
        ELSE LET user == GetUser(config, ctx.User)
                 cluster == GetCluster(config, ctx.Cluster)
             IN  IF user = Nil THEN FALSE
                 ELSE IF cluster = Nil THEN FALSE
                 ELSE IF ~hasValidCredentials(user, p) THEN FALSE
                 ELSE isClusterReachable(cluster, user, p)

GetContextNames(c) == DOMAIN c.contextMap

\* the orders in which a range over a map may visit a set of keys
RECURSIVE mapOrders(_)
mapOrders(keys) ==
    IF keys = {} THEN {<<>>}
    ELSE UNION {{<<k>> \o rest : rest \in mapOrders(keys \ {k})} : k \in keys}

\* findContextsToRemove marking what fails the whitelist, whatever the auth
findContextsToRemoveWhitelistOnly(config, c, auth, p) ==
    mapOrders({n \in GetContextNames(config) : ~MatchesWhitelist(c, n)})

\* findContextsToRemove marking what fails either check
findContextsToRemoveEitherFails(config, c, auth, p) ==
    mapOrders({n \in GetContextNames(config) :
                  ~MatchesWhitelist(c, n) \/ (auth /\ ~IsAuthValid(config, n, p))})

\* findContextsToRemove: the lists it may return (the context names are
\* visited in the order of a map)
findContextsToRemove(config, c, auth, p) ==
    mapOrders({n \in GetContextNames(config) :
                  /\ ~MatchesWhitelist(c, n)
                  /\ ~(auth /\ IsAuthValid(config, n, p))})

\* the documents handed to findContextsToRemove on its own: context "a"
\* with a cluster and a user that pass the auth check when the server
\* answers, context "b" with a cluster and a user that may not
FilterUsers ==
    {baseUser,
     [baseUser EXCEPT !.Token = ""],
     [baseUser EXCEPT !.Token = "", !.Exec = [Command |-> "aws"]],
     [baseUser EXCEPT !.Token = "", !.AuthProvider = [Name |-> "oidc", Config |-> ""]]}
FilterDocuments ==
    {Document(c, <<Named(An, baseCluster), Named(Bn, k)>>, <<Named(An, baseUser), Named(Bn, u)>>, An) :
        c \in SubLists(<<Named(An, baseContext),
                         Named(Bn, [Cluster |-> Bn, User |-> Bn, Namespace |-> ""])>>),
        k \in {baseCluster, [baseCluster EXCEPT !.Server = ""]},
        u \in FilterUsers}

\* the scenario of the specification: five contexts, two patterns
scenarioDocument ==
    Document(<<Named(<<"p", "r", "o", "d", "u", "c", "t", "i", "o", "n", "-", "c", "l", "u", "s", "t", "e", "r">>, baseContext),
                      Named(<<"p", "r", "o", "d", "u", "c", "t", "i", "o", "n", "-", "b", "a", "c", "k", "u", "p">>, baseContext),
                      Named(<<"s", "t", "a", "g", "i", "n", "g", "-", "c", "l", "u", "s", "t", "e", "r">>, baseContext),
                      Named(<<"d", "e", "v", "e", "l", "o", "p", "m", "e", "n", "t", "-", "c", "l", "u", "s", "t", "e", "r">>, baseContext),
                      Named(<<"t", "e", "s", "t", "-", "c", "l", "u", "s", "t", "e", "r">>, baseContext)>>,
             <<Named(An, baseCluster)>>, <<Named(An, baseUser)>>, <<"p", "r", "o", "d", "u", "c", "t", "i", "o", "n", "-", "c", "l", "u", "s", "t", "e", "r">>)
scenarioWhitelist == <<<<"p", "r", "o", "d", "u", "c", "t", "i", "o", "n", "-", "*">>, <<"s", "t", "a", "g", "i", "n", "g", "-", "c", "l", "u", "s", "t", "e", "r">>>>

\* most patterns of a whitelist
MaxPatterns == 2
PatternPool == {<<"a">>, <<"A">>, <<"*">>, <<"?">>, <<"a", "*">>, <<"b", "?">>}

InitFilter ==
    /\ pc = "input"
    /\ \E d \in FilterDocuments \cup {scenarioDocument} :
          /\ kConfig = buildInternalMaps(d)
          /\ kConfig0 = buildInternalMaps(d)
    /\ \E w \in SeqUpTo(PatternPool, MaxPatterns) \cup {scenarioWhitelist} : cfg = compiled(w)
    /\ authCheck \in BOOLEAN
    /\ probe \in Probes
    /\ contextsToRemove = <<>>
    /\ dryRun = FALSE /\ interactive = FALSE
    /\ analysis = NoAnalysis
    /\ current = Nil /\ backup = Nil /\ items = <<>> /\ selective = Nil
    /\ RunIdle
    /\ dirEntries = {} /\ call = Nil /\ ret = Nil /\ stdin = <<>> /\ reader = <<>>

Filter ==
    /\ pc = "input"
    /\ contextsToRemove' \in findContextsToRemove(kConfig, cfg, authCheck, probe)
    /\ pc' = "filtered"
    /\ UNCHANGED <<analysis, pureVars, runVars, histVars, catalogVars, dryRun, authCheck,
                   interactive, cfg, kConfig, probe, kConfig0>>

NextFilter == Filter

SpecFilter == InitFilter /\ [][NextFilter]_vars

\* the pattern matches the whole name: * stands for any characters, ? for
\* one character, every other character for itself
RECURSIVE GlobMatches(_, _)
GlobMatches(pattern, name) ==
    IF pattern = <<>> THEN name = <<>>
    ELSE IF Head(pattern) = "*"
         THEN \E k \in 0..Len(name) : GlobMatches(Tail(pattern), SubSeq(name, k + 1, Len(name)))
    ELSE /\ name # <<>>
         /\ Head(pattern) = "?" \/ Head(pattern) = Head(name)
         /\ GlobMatches(Tail(pattern), Tail(name))

Whitelisted(n) == \E i \in DOMAIN cfg.Whitelist : GlobMatches(cfg.Whitelist[i], n)
AuthValid(n) == IsAuthValid(kConfig, n, probe)
Marked(n) == n \in Range(contextsToRemove)

configFile == [suffix |-> ".kubectx-manager_ignore", ts |-> 0]
Ignore(lines) == [kind |-> "ignore", lines |-> lines]
\* the template createDefaultConfig writes: comment lines and an empty line
defaultContent == Ignore(<<<<"#", " ", "k">>, <<>>, <<"#", " ", "A">>>>)

\* the lines of the ignore file that are patterns
RECURSIVE whitelistOf(_)
whitelistOf(lines) ==
    IF lines = <<>> THEN <<>>
    ELSE LET line == TrimSpace(Head(lines))
         IN  IF line = <<>> \/ HasPrefix(line, <<"#">>) THEN whitelistOf(Tail(lines))
             ELSE <<line>> \o whitelistOf(Tail(lines))

\* config.Load: a missing ignore file is created from the template; the file
\* is opened, its lines are read and its patterns compiled
configLoad(fs, path, created, readable) ==
    LET missing == ~Exists(fs, path)
        after == IF missing THEN Written(fs, path, defaultContent, created) ELSE fs
    IN  IF missing /\ created # "ok" THEN [err |-> TRUE, fs |-> after, cfg |-> Nil]
        ELSE IF ~readable THEN [err |-> TRUE, fs |-> after, cfg |-> Nil]
        ELSE [err |-> FALSE, fs |-> after, cfg |-> compiled(whitelistOf(after[path].lines))]

\* fmt.Scanln(&response): one word on the line, after any blanks
RECURSIVE words(_)
words(line) ==
    LET s == TrimLeft(line)
        n == IF \E i \in DOMAIN s : isSpace(s[i])
             THEN SetMin({i \in DOMAIN s : isSpace(s[i])}) - 1 ELSE Len(s)
    IN  IF s = <<>> THEN <<>>
        ELSE <<SubSeq(s, 1, n)>> \o words(SubSeq(s, n + 1, Len(s)))

confirmRemoval(input) ==
    IF input.err \/ Len(words(input.line)) # 1 THEN FALSE
    ELSE words(input.line)[1] \in {<<"y">>, <<"Y">>, <<"y", "e", "s">>, <<"Y", "e", "s">>}

\* kubeconfig.Save: marshal the lists and the current context, write the file
Save(fs, config, path, outcome) ==
    [err |-> outcome # "ok",
     fs |-> Written(fs, path,
                    Yaml(Document(config.Contexts, config.Clusters, config.Users,
                                  config.CurrentContext)),
                    outcome)]

IgnoreContents ==
    {Absent, Ignore(<<>>), Ignore(<<<<"a">>>>), Ignore(<<<<"#", "a">>, <<" ", "b", " ">>>>),
     Ignore(<<<<"*">>>>)}
RemovalInputs ==
    {ReadError} \cup {Line(l) : l \in {<<"y">>, <<"Y", "e", "s">>, <<" ", "y">>, <<"y", " ", "n">>,
                                        <<"n">>, <<>>}}
CleanupProbes == {p \in Probes : p.found = {} /\ p.abs}

InitCleanup ==
    /\ pc = "loadConfig"
    /\ \E live \in {Yaml(docOne), Yaml(docTwo), Garbage, Absent},
          ignore \in IgnoreContents, older \in SUBSET Times :
          files = [p \in {q \in {kubeConfig} : live # Absent}
                            \cup {q \in {configFile} : ignore # Absent}
                            \cup {backupPathOf(t) : t \in older} |->
                      IF p = kubeConfig THEN live
                      ELSE IF p = configFile THEN ignore ELSE Yaml(docOne)]
    /\ files0 = files
    /\ dryRun \in BOOLEAN /\ authCheck \in BOOLEAN /\ interactive \in BOOLEAN
    /\ probe \in CleanupProbes
    /\ now \in Times
    /\ cfg = Nil /\ kConfig = Nil /\ kConfig0 = Nil /\ contextsToRemove = <<>>
    /\ exit = "none" /\ failed = "none" /\ written = {} /\ overwrote = FALSE
    /\ noBackup = FALSE /\ keepBackup = FALSE
    /\ backups = <<>> /\ selectedBackup = Nil /\ decision = NoDecision
    /\ answer = Nil /\ prompts = 0 /\ replies = NoReplies
    /\ analysis = NoAnalysis
    /\ current = Nil /\ backup = Nil /\ items = <<>> /\ selective = Nil
    /\ dirEntries = {} /\ call = Nil /\ ret = Nil /\ stdin = <<>> /\ reader = <<>>

\* what a step of the cleanup run leaves alone, besides what it names
cleanupFrame ==
    <<analysis, pureVars, catalogVars, noBackup, keepBackup, now, backups, selectedBackup,
      decision, files0, answer, prompts, replies, dryRun, authCheck, interactive, probe>>

LoadConfiguration ==
    /\ pc = "loadConfig"
    /\ \E created \in WriteOutcomes, readable \in BOOLEAN :
          LET r == configLoad(files, configFile, created, readable)
          IN  /\ files' = r.fs
              /\ cfg' = r.cfg
              /\ IF r.err THEN Finish("error", "config")
                 ELSE pc' = "loadKubeconfig" /\ UNCHANGED <<exit, failed>>
    /\ UNCHANGED <<cleanupFrame, kConfig, kConfig0, contextsToRemove, written, overwrote>>

LoadKubeconfig ==
    /\ pc = "loadKubeconfig"
    /\ LET r == Load(files, kubeConfig)
       IN  /\ kConfig' = r.config
           /\ kConfig0' = r.config
           /\ IF r.err THEN Finish("error", "load")
              ELSE pc' = "createBackup" /\ UNCHANGED <<exit, failed>>
    /\ UNCHANGED <<cleanupFrame, files, cfg, contextsToRemove, written, overwrote>>

\* a run that goes on to the removal without a backup
SkipBackupBeforeModifications ==
    /\ pc = "createBackup"
    /\ pc' = "find"
    /\ UNCHANGED <<cleanupFrame, files, written, exit, failed, cfg, kConfig, kConfig0,
                   contextsToRemove, overwrote>>

\* the backup before modifications, skipped in a dry run
CreateBackupBeforeModifications ==
    /\ pc = "createBackup"
    /\ IF dryRun
       THEN pc' = "find" /\ UNCHANGED <<files, written, exit, failed>>
       ELSE \E outcome \in WriteOutcomes :
               LET r == CreateBackup(files, kubeConfig, now, outcome)
               IN  /\ files' = r.fs
                   /\ IF r.err
                      THEN Finish("error", "backup") /\ UNCHANGED written
                      ELSE /\ written' = written \cup {r.path}
                           /\ pc' = "find"
                           /\ UNCHANGED <<exit, failed>>
    /\ UNCHANGED <<cleanupFrame, cfg, kConfig, kConfig0, contextsToRemove, overwrote>>

\* the removal set; nothing to remove, or a dry run: the run ends here
FindContextsToRemove ==
    /\ pc = "find"
    /\ contextsToRemove' \in findContextsToRemove(kConfig, cfg, authCheck, probe)
    /\ IF Len(contextsToRemove') = 0 \/ dryRun THEN Finish("ok", "none")
       ELSE /\ pc' = IF interactive THEN "confirmRemoval" ELSE "remove"
            /\ UNCHANGED <<exit, failed>>
    /\ UNCHANGED <<cleanupFrame, files, cfg, kConfig, kConfig0, written, overwrote>>

ConfirmRemoval ==
    /\ pc = "confirmRemoval"
    /\ \E input \in RemovalInputs :
          IF confirmRemoval(input)
          THEN pc' = "remove" /\ UNCHANGED <<exit, failed>>
          ELSE Finish("ok", "none")
    /\ UNCHANGED <<cleanupFrame, files, cfg, kConfig, kConfig0, contextsToRemove, written,
                   overwrote>>

\* remove the contexts and save the kubeconfig
RemoveAndSave ==
    /\ pc = "remove"
    /\ kConfig' = RemoveContexts(kConfig, contextsToRemove)
    /\ \E outcome \in WriteOutcomes :
          LET r == Save(files, kConfig', kubeConfig, outcome)
          IN  /\ files' = r.fs
              /\ overwrote' = (outcome # "refused")
              /\ IF r.err THEN Finish("error", "save") ELSE Finish("ok", "none")
    /\ UNCHANGED <<cleanupFrame, cfg, kConfig0, contextsToRemove, written>>

NextCleanup ==
    \/ LoadConfiguration
    \/ LoadKubeconfig
    \/ CreateBackupBeforeModifications
    \/ FindContextsToRemove
    \/ ConfirmRemoval
    \/ RemoveAndSave

SpecCleanup == InitCleanup /\ [][NextCleanup]_vars

\* C16: in a cleanup run that is not a dry run the kubeconfig is rewritten
\* only after a full backup with its bytes from before the run was created in
\* the run; when creating the backup fails the run ends with an error and the
\* kubeconfig is as it was.
C16_CleanupBacksUpBeforeRewriting ==
    ~dryRun =>
        /\ (overwrote \/ pc \in {"find", "confirmRemoval", "remove"}) =>
              \E p \in written : p.suffix = ".backup." /\ files[p] = files0[kubeConfig]
        /\ failed = "backup" => pc = "done" /\ exit = "error" /\ ~overwrote /\ LiveUntouched

C16_Witness ==
    /\ ~dryRun /\ pc = "done" /\ exit = "ok" /\ overwrote
    /\ files[kubeConfig] # files0[kubeConfig]
    /\ \E p \in written : files[p] = files0[kubeConfig]

\* C17: a dry run of the cleanup changes nothing: no backup, no write of the
\* kubeconfig, no other file created, modified or deleted, with or without
\* an ignore file beforehand.
C17_DryRunChangesNothing ==
    dryRun => files = files0 /\ written = {} /\ ~overwrote

(***************************************************************************)
(* Existing backups                                                        *)
(***************************************************************************)
\* the full backups that were there when the run began
FullBackups0 == {p \in DOMAIN files0 : p.suffix = ".backup."}

\* C24: no operation changes the content of an existing full backup:
\* a backup that was there at the start of the run and is still there holds
\* the bytes it held, also when the run creates its backup in the second of
\* an existing backup's timestamp.
C24_ExistingBackupsKeepTheirContent ==
    \A p \in FullBackups0 : Exists(files, p) => files[p] = files0[p]

\* existing backups keep their content in runs whose clock differs from the
\* timestamp of every existing backup
BackupsKeptWhenClockDiffers ==
    backupPathOf(now) \notin FullBackups0 => C24_ExistingBackupsKeepTheirContent

(***************************************************************************)
(* hasValidCredentials on its own                                          *)
(***************************************************************************)
\* the users handed to hasValidCredentials: every combination of a set and
\* an unset field, of an absent, an empty and a filled descriptor
CredentialUsers ==
    {[baseUser EXCEPT !.Token = t, !.ClientCertificateData = d, !.ClientCertificate = f,
                      !.Username = u, !.Password = w, !.AuthProvider = a, !.Exec = e] :
        t \in {"", "t1"}, d \in {"", "cert"}, f \in {"", "/c.crt"},
        u \in {"", "u"}, w \in {"", "p"},
        a \in {Nil, [Name |-> "oidc", Config |-> ""], [Name |-> "oidc", Config |-> "c"]},
        e \in {Nil, [Command |-> ""], [Command |-> "aws"]}}

InitCredentials ==
    /\ pc = "input"
    /\ call \in [user : CredentialUsers]
    /\ ret = Nil /\ stdin = <<>> /\ reader = <<>>
    /\ probe \in Probes
    /\ analysis = NoAnalysis
    /\ current = Nil /\ backup = Nil /\ items = <<>> /\ selective = Nil
    /\ RunIdle
    /\ dirEntries = {}
    /\ dryRun = FALSE /\ authCheck = FALSE /\ interactive = FALSE
    /\ cfg = Nil /\ kConfig = Nil /\ kConfig0 = Nil
    /\ contextsToRemove = <<>>

\* what a call of a function on its own leaves alone
callFrame == <<analysis, pureVars, runVars, histVars, cleanVars, dirEntries, call, stdin, reader>>

HasValidCredentials ==
    /\ pc = "input"
    /\ ret' = hasValidCredentials(call.user, probe)
    /\ pc' = "returned"
    /\ UNCHANGED callFrame

NextCredentials == HasValidCredentials

SpecCredentials == InitCredentials /\ [][NextCredentials]_vars

\* the command of an exec descriptor resolves: os.Stat finds it, or
\* filepath.Abs gives a candidate
Resolves(command, p) == command \in p.found \/ p.abs

\* a user has credentials of at least one of the five kinds
HasCredentials(user, p) ==
    \/ user.Token # ""
    \/ user.ClientCertificateData # "" \/ user.ClientCertificate # ""
    \/ user.Username # "" /\ user.Password # ""
    \/ user.AuthProvider # Nil /\ user.AuthProvider.Config # ""
    \/ user.Exec # Nil /\ user.Exec.Command # "" /\ Resolves(user.Exec.Command, p)

\* C25: hasValidCredentials is true iff the user has a token, a client
\* certificate, a username with a password, an auth-provider with a
\* non-empty config or an exec descriptor whose command resolves, for every
\* combination of fields.
C25_CredentialsIffAnyKindQualifies ==
    pc = "returned" => (ret <=> HasCredentials(call.user, probe))

\* the claim of C25 for users that do not carry an auth-provider with an
\* empty config together with an exec descriptor
CredentialsExactWithoutEmptyProvider ==
    ~(call # Nil /\ call.user.AuthProvider # Nil /\ call.user.AuthProvider.Config = ""
        /\ call.user.Exec # Nil)
        => C25_CredentialsIffAnyKindQualifies

(***************************************************************************)
(* MatchesWhitelist on its own                                             *)
(***************************************************************************)
\* longest pattern handed to compilePattern on its own; the names are one
\* character longer
MaxGlobLen == 2

GlobChars == {"a", "A", "*", "?", ".", "\\"}
NameChars == {"a", "A", ".", "\n"}

\* the whitelists: none, one pattern, and the pattern before and after
\* another one
GlobWhitelists ==
    {<<>>} \cup UNION {{<<g>>, <<g, <<"A">>>>, <<<<"A">>, g>>} : g \in SeqUpTo(GlobChars, MaxGlobLen)}

InitWhitelist ==
    /\ pc = "input"
    /\ call \in [whitelist : GlobWhitelists, contextName : SeqUpTo(NameChars, MaxGlobLen + 1)]
    /\ ret = Nil /\ stdin = <<>> /\ reader = <<>>
    /\ probe = Nil
    /\ analysis = NoAnalysis
    /\ current = Nil /\ backup = Nil /\ items = <<>> /\ selective = Nil
    /\ RunIdle
    /\ dirEntries = {}
    /\ dryRun = FALSE /\ authCheck = FALSE /\ interactive = FALSE
    /\ cfg = Nil /\ kConfig = Nil /\ kConfig0 = Nil
    /\ contextsToRemove = <<>>

\* the patterns are compiled as Load compiles them, then the name is matched
MatchWhitelist ==
    /\ pc = "input"
    /\ ret' = MatchesWhitelist(compiled(call.whitelist), call.contextName)
    /\ pc' = "returned"
    /\ UNCHANGED callFrame

NextWhitelist == MatchWhitelist

SpecWhitelist == InitWhitelist /\ [][NextWhitelist]_vars

\* C26: MatchesWhitelist is true iff some pattern matches the whole name,
\* with * for zero or more arbitrary characters, ? for one arbitrary
\* character and every other character for itself, case-sensitively; an
\* empty whitelist matches nothing.
C26_MatchesIffSomePatternMatchesWholeName ==
    pc = "returned" =>
        (ret <=> \E i \in DOMAIN call.whitelist : GlobMatches(call.whitelist[i], call.contextName))

\* the claim of C26 for names without a line feed
MatchesExactWithoutLineFeed ==
    (call # Nil /\ "\n" \notin Range(call.contextName)) => C26_MatchesIffSomePatternMatchesWholeName

(***************************************************************************)
(* The prompts of a restore run on one standard input                      *)
(***************************************************************************)
\* most lines on standard input before its end
MaxLines == 3

StdinLines == {<<"1">>, <<"y">>, <<"s">>, <<"0">>, <<"x">>, <<"3">>, <<" ", "2", " ">>}

\* reader.ReadString('\n') on a bufio.Reader holding buf over an input
\* holding in: a line of the buffer if there is one; otherwise one Read of
\* the input, which hands over k of its lines (one on a terminal, all that
\* is there on a pipe or a file), the first is returned and the others stay
\* in the buffer; at the end of the input an error
ReadString(buf, in, k) ==
    IF buf # <<>> THEN [input |-> Line(Head(buf)), buf |-> Tail(buf), in |-> in]
    ELSE IF in = <<>> THEN [input |-> ReadError, buf |-> <<>>, in |-> <<>>]
    ELSE [input |-> Line(Head(in)), buf |-> SubSeq(in, 2, k), in |-> SubSeq(in, k + 1, Len(in))]

\* the sizes a Read of the input may have
Reads(in) == IF in = <<>> THEN {0} ELSE 1..Len(in)

NoAnswers == [selection |-> 0 - 1, confirmed |-> "unasked", choice |-> "unasked", reads |-> 0]

\* a restore run with its backups listed, at the selection prompt; the
\* selected backup will conflict with the live kubeconfig
InitStdin ==
    /\ pc = "select"
    /\ \E m \in 1..MaxTime :
          backups = findBackups([p \in {backupPathOf(t) : t \in 1..m} |-> Yaml(docOne)])
    /\ stdin \in SeqUpTo(StdinLines, MaxLines)
    /\ call = [stdin |-> stdin]
    /\ reader = <<>>
    /\ ret = NoAnswers
    /\ selectedBackup = Nil
    /\ exit = "none" /\ failed = "none"
    /\ files = NoFiles /\ files0 = NoFiles
    /\ noBackup = FALSE /\ keepBackup = FALSE /\ now = 0
    /\ decision = NoDecision
    /\ answer = Nil /\ prompts = 0 /\ written = {} /\ overwrote = FALSE
    /\ replies = NoReplies
    /\ analysis = NoAnalysis
    /\ current = Nil /\ backup = Nil /\ items = <<>> /\ selective = Nil
    /\ dirEntries = {}
    /\ dryRun = FALSE /\ authCheck = FALSE /\ interactive = FALSE
    /\ cfg = Nil /\ kConfig = Nil /\ kConfig0 = Nil
    /\ contextsToRemove = <<>>
    /\ probe = Nil

stdinFrame ==
    <<analysis, pureVars, cleanVars, dirEntries, call, files, noBackup, keepBackup, now, backups,
      decision, histVars>>

\* one pass of the loop of getUserSelection, on the reader made at its entry
SelectionPrompt ==
    /\ pc = "select"
    /\ \E k \in Reads(stdin) :
          LET r == ReadString(reader, stdin, k)
              g == getUserSelection(r.input, Len(backups))
          IN  /\ stdin' = r.in
              /\ ret' = [ret EXCEPT !.selection = IF g.again THEN ret.selection ELSE g.selection,
                                    !.reads = IF reader = <<>> /\ k > ret.reads THEN k ELSE ret.reads]
              /\ CASE g.err -> /\ Finish("error", "select")
                               /\ reader' = <<>>
                               /\ UNCHANGED selectedBackup
                   [] g.again -> /\ reader' = r.buf
                                 /\ UNCHANGED <<pc, exit, failed, selectedBackup>>
                   [] g.selection = 0 -> /\ Finish("ok", "none")
                                         /\ reader' = <<>>
                                         /\ UNCHANGED selectedBackup
                   [] OTHER -> /\ selectedBackup' = backups[g.selection]
                               /\ pc' = "confirm"
                               /\ reader' = <<>>
                               /\ UNCHANGED <<exit, failed>>
    /\ UNCHANGED stdinFrame

\* confirmRestore, on a reader of its own
ConfirmationPrompt ==
    /\ pc = "confirm"
    /\ \E k \in Reads(stdin) :
          LET r == ReadString(<<>>, stdin, k)
          IN  /\ stdin' = r.in
              /\ ret' = [ret EXCEPT !.confirmed = IF confirmRestore(r.input) THEN "yes" ELSE "no",
                                    !.reads = IF k > ret.reads THEN k ELSE ret.reads]
              /\ IF confirmRestore(r.input)
                 THEN pc' = "choice" /\ UNCHANGED <<exit, failed>>
                 ELSE Finish("ok", "none")
    /\ UNCHANGED <<stdinFrame, reader, selectedBackup>>

\* askUserAboutConflicts, on a reader of its own
ConflictPrompt ==
    /\ pc = "choice"
    /\ \E k \in Reads(stdin) :
          LET r == ReadString(<<>>, stdin, k)
          IN  /\ stdin' = r.in
              /\ ret' = [ret EXCEPT !.choice = askUserAboutConflicts(r.input),
                                    !.reads = IF k > ret.reads THEN k ELSE ret.reads]
    /\ Finish("ok", "none")
    /\ UNCHANGED <<stdinFrame, reader, selectedBackup>>

NextStdin ==
    \/ SelectionPrompt
    \/ ConfirmationPrompt
    \/ ConflictPrompt

SpecStdin == InitStdin /\ [][NextStdin]_vars

\* the number a line stands for: digits between white space, with a sign or
\* without; no number: -1 (which no prompt accepts)
NumberOn(line) ==
    LET t == TrimSpace(line)
        body == IF t # <<>> /\ Head(t) \in {"+", "-"} THEN Tail(t) ELSE t
    IN  IF body = <<>> \/ \E i \in DOMAIN body : body[i] \notin Range(digits) THEN 0 - 1
        ELSE IF Head(t) = "-" THEN 0 - decimal(body) ELSE decimal(body)

ValidLine(line) == NumberOn(line) \in 0..Len(backups)

\* the lines of the input up to the first valid one (all, if there is none)
FirstValid ==
    IF \E i \in DOMAIN call.stdin : ValidLine(call.stdin[i])
    THEN SetMin({i \in DOMAIN call.stdin : ValidLine(call.stdin[i])})
    ELSE Len(call.stdin) + 1

\* the lines the selection prompt has taken so far
Taken == Len(call.stdin) - Len(stdin) - Len(reader)

\* C27: getUserSelection returns a value in 0..max only; a line that is not
\* a number or is out of range is dropped and the prompt comes again, the
\* run going on; the first line that is 0 or in 1..max is the result;
\* selection k takes the k-th newest listed backup; the loop ends with the
\* first valid line or at the end of the input.
C27_SelectionIsFirstValidLine ==
    /\ pc = "select" => /\ exit = "none"
                        /\ \A i \in 1..Taken : ~ValidLine(call.stdin[i])
    /\ ret.selection # 0 - 1 =>
          /\ ret.selection \in 0..Len(backups)
          /\ ret.selection =
                IF FirstValid <= Len(call.stdin) THEN NumberOn(call.stdin[FirstValid]) ELSE 0
          /\ (failed = "select") <=> (FirstValid > Len(call.stdin))
    /\ ret.selection >= 1 =>
          /\ selectedBackup = backups[ret.selection]
          /\ Cardinality({b \in Range(backups) : b.Time > selectedBackup.Time}) = ret.selection - 1

\* two lines were dropped, the third selected the second backup
C27_Witness ==
    /\ pc = "confirm" /\ ret.selection = 2 /\ Len(call.stdin) = 3 /\ FirstValid = 3
    /\ selectedBackup.Time = 1

\* the line after the n-th line of the input, as a prompt reads it
LineAfter(n) == IF n + 1 <= Len(call.stdin) THEN Line(call.stdin[n + 1]) ELSE ReadError

\* C30: each prompt of a restore run takes exactly one line of standard
\* input: the confirmation prompt reads the line after the one that answered
\* the selection prompt, the conflict prompt the line after that; the lines
\* 1, y, s select backup 1, confirm and choose the selective backup.
C30_EachPromptTakesOneLine ==
    /\ ret.confirmed # "unasked" =>
          (ret.confirmed = "yes" <=> Says(LineAfter(FirstValid), wordsYes))
    /\ ret.choice # "unasked" =>
          (ret.choice = choiceSelective <=> Says(LineAfter(FirstValid + 1), wordsSelective))
    /\ (pc = "done" /\ call.stdin = <<<<"1">>, <<"y">>, <<"s">>>>) =>
          ret.selection = 1 /\ ret.confirmed = "yes" /\ ret.choice = choiceSelective

\* the claim of C30 for an input that hands over one line at each Read, as a
\* terminal does
OneLinePerPromptOnTerminal == ret.reads <= 1 => C30_EachPromptTakesOneLine

(***************************************************************************)
(* Conflict descriptions, written and read back                            *)
(***************************************************************************)
\* longest entity name of the short names put into a description
MaxNameLen == 3

\* the names: short ones over a letter, a blank and an apostrophe, and names
\* that hold the marker of a kind
DescribedNames ==
    SeqUpTo({"a", " ", "'"}, MaxNameLen)
        \cup {kindOf(kd) \o <<" ", "'">> \o An : kd \in Kinds}

InitDescribe ==
    /\ pc = "input"
    /\ call \in [kind : Kinds, name : DescribedNames]
    /\ ret = Nil /\ stdin = <<>> /\ reader = <<>>
    /\ probe = Nil
    /\ analysis = NoAnalysis
    /\ current = Nil /\ backup = Nil /\ items = <<>> /\ selective = Nil
    /\ RunIdle
    /\ dirEntries = {}
    /\ dryRun = FALSE /\ authCheck = FALSE /\ interactive = FALSE
    /\ cfg = Nil /\ kConfig = Nil /\ kConfig0 = Nil
    /\ contextsToRemove = <<>>

\* the description analyzeRestoreConflicts writes for the entity, read by the
\* loop of createSelectiveBackup: the branch taken and the name extracted
ReadDescription ==
    /\ pc = "input"
    /\ LET conflict == Describe(call)
           branch == conflictBranch(conflict)
       IN  ret' = [kind |-> branch,
                   name |-> IF branch = "none" THEN <<>>
                            ELSE extractNameFromConflict(conflict, kindOf(branch))]
    /\ pc' = "returned"
    /\ UNCHANGED callFrame

NextDescribe == ReadDescription

SpecDescribe == InitDescribe /\ [][NextDescribe]_vars

\* C28: the description of a conflict, read back, gives the kind and the
\* name it was written for, for every kind and every name.
C28_DescriptionsRoundTrip ==
    pc = "returned" => ret.kind = call.kind /\ ret.name = call.name

\* descriptions round-trip for names without an apostrophe
RoundTripWithoutApostrophe ==
    (call # Nil /\ "'" \notin Range(call.name)) => C28_DescriptionsRoundTrip

(***************************************************************************)
(* The permissions of the files written                                    *)
(***************************************************************************)
\* permission bits: read and write of the owner, the group and the others
ownerOnly == {"ur", "uw"}
kubeconfigFileMode == ownerOnly
createMode == {"ur", "uw", "gr", "gw", "or", "ow"}

\* os.OpenFile(name, O_WRONLY|O_CREATE|O_TRUNC, perm): the mode of the file
\* afterwards; perm, less the umask, is given to a file that is created, and
\* a file that exists keeps its mode
OpenFile(before, perm, umask) == IF before.exists THEN before.mode ELSE perm \ umask

\* the mode of the file written by each writer of kubeconfig content
modeWritten(writer, before, umask) ==
    CASE writer = "Save" -> OpenFile(before, kubeconfigFileMode, umask)
      [] writer = "createSelectiveBackup" -> OpenFile(before, kubeconfigFileMode, umask)
      [] writer = "restoreFromBackup" -> OpenFile(before, ownerOnly, umask)
      [] writer = "CreateBackup" -> OpenFile(before, createMode, umask)

Writers == {"Save", "createSelectiveBackup", "restoreFromBackup", "CreateBackup"}
\* the file is not there, or is there with a mode its owner can write
FilesBefore ==
    {[exists |-> FALSE, mode |-> {}]}
        \cup {[exists |-> TRUE, mode |-> ownerOnly \cup m] : m \in SUBSET {"gr", "gw", "or", "ow"}}
Umasks == {{}, {"ow"}, {"gw", "ow"}, {"gr", "gw", "or", "ow"}}

InitModes ==
    /\ pc = "input"
    /\ call \in [writer : Writers, before : FilesBefore, umask : Umasks]
    /\ ret = Nil /\ stdin = <<>> /\ reader = <<>>
    /\ probe = Nil
    /\ analysis = NoAnalysis
    /\ current = Nil /\ backup = Nil /\ items = <<>> /\ selective = Nil
    /\ RunIdle
    /\ dirEntries = {}
    /\ dryRun = FALSE /\ authCheck = FALSE /\ interactive = FALSE
    /\ cfg = Nil /\ kConfig = Nil /\ kConfig0 = Nil
    /\ contextsToRemove = <<>>

WriteKubeconfigContent ==
    /\ pc = "input"
    /\ ret' = modeWritten(call.writer, call.before, call.umask)
    /\ pc' = "returned"
    /\ UNCHANGED callFrame

NextModes == WriteKubeconfigContent

SpecModes == InitModes /\ [][NextModes]_vars

\* C29: every file written with kubeconfig content (saved kubeconfig,
\* restored kubeconfig, full backup, selective backup) can be read and
\* written by its owner only once written, newly created or not.
C29_WrittenFilesAreOwnerOnly ==
    pc = "returned" => ret = ownerOnly

\* a file created by Save, createSelectiveBackup or restoreFromBackup is for
\* its owner only
CreatedByWriteFileIsOwnerOnly ==
    (call # Nil /\ call.writer # "CreateBackup" /\ ~call.before.exists)
        => C29_WrittenFilesAreOwnerOnly

====
